---- MODULE Spec2Model ----
(***************************************************************************)
(* Commit/spell signing, classification and broadcast of echo-markets      *)
(* (src/lib/bitcoin.ts, src/lib/utils.ts, src/app/api/charms/config/       *)
(* route.ts).                                                              *)
(*                                                                         *)
(* A raw transaction hex is modelled by the transaction it serialises:     *)
(* version, lockTime, inputs (outpoint, sequence, witness) and outputs.    *)
(* A transaction id is the double SHA-256 of the serialisation without     *)
(* witnesses; it is modelled by that witness-free content itself, which    *)
(* is the ideal (collision-free) hash.  A transaction can therefore only   *)
(* spend outputs of transactions that were built before it.  The id        *)
(* getter of the transaction library answers only for a transaction whose  *)
(* inputs are all finalized and throws otherwise.                          *)
(***************************************************************************)
EXTENDS Integers, Sequences, FiniteSets, TLC

\* ---------------------------------------------------------------------------
\* Bounds
\* ---------------------------------------------------------------------------
MaxInputs == 2
NumChainTxs == 2

\* Longest UTXO list handed to the selection operations.
MaxUtxos == 2

\* Order of the group that stands for the secp256k1 curve.
CurveOrder == 13

\* Number of distinct mnemonic phrases.
NumPhrases == 2

\* Largest address index asked of a single-key derivation.
MaxIndex == 1

\* Number of concurrent callers of the fee operations.
NumCallers == 2

\* Number of clock steps of half a cache lifetime.
MaxTicks == 3

\* Number of addresses of each chain the scanned wallet holds.
NumScanAddresses == 2

\* Largest maxAddresses handed to a scan.
MaxScanBudget == 3

\* Number of market operations started in one behaviour.
NumCalls == 2

\* Number of calls made to the stores from outside the operations.
MaxStoreCalls == 1

\* ---------------------------------------------------------------------------
\* Transactions
\* ---------------------------------------------------------------------------
NoTx == [version |-> 0, lockTime |-> 0, ins |-> <<>>, outs |-> <<>>]

StripWitness(in) == [txid |-> in.txid, index |-> in.index, sequence |-> in.sequence]

\* The txid by which the network, the indexer and the prover name a
\* transaction: hash of the serialisation without witness data.
WitnessFreeId(tx) ==
  [version |-> tx.version, lockTime |-> tx.lockTime,
   ins |-> [i \in DOMAIN tx.ins |-> StripWitness(tx.ins[i])],
   outs |-> tx.outs]

NoId == WitnessFreeId(NoTx)

\* btc.Transaction#isFinal: every input carries a final scriptSig or witness.
IsFinal(tx) == \A i \in DOMAIN tx.ins : tx.ins[i].witness # "none"

\* An id getter that hashes the witness data as well.
TxId_WithWitness(tx) ==
  [ok |-> IsFinal(tx), id |-> IF IsFinal(tx) THEN tx ELSE NoId]

\* btc.Transaction#id: the txid of a finalized transaction; the getter throws
\* "Transaction is not finalized" for any other (ok is FALSE).
TxId(tx) ==
  [ok |-> IsFinal(tx), id |-> IF IsFinal(tx) THEN WitnessFreeId(tx) ELSE NoId]

Outpoint(txid, index) == [txid |-> txid, index |-> index]

\* A confirmed transaction paying the wallet's main address (the "mining tx").
ChainTx(k) ==
  [version |-> 2, lockTime |-> 0, ins |-> <<>>,
   outs |-> <<[script |-> "p2tr-user", amount |-> 50000 + k]>>]

ChainTxs == {ChainTx(k) : k \in 1..NumChainTxs}

ChainOutpoints == {Outpoint(WitnessFreeId(t), 0) : t \in ChainTxs}

\* Sequences without repetition of 1..n elements of S.
InjSeqs(S, n) ==
  UNION {{s \in [1..k -> S] : \A i, j \in 1..k : i # j => s[i] # s[j]} : k \in 1..n}

MkInput(op, w) ==
  [txid |-> op.txid, index |-> op.index, sequence |-> "ffffffff", witness |-> w]

\* Transactions on confirmed outputs only, every input with witness w.
CommitsWith(w) ==
  {[version |-> 2, lockTime |-> 0,
    ins |-> [i \in DOMAIN s |-> MkInput(s[i], w)],
    outs |-> <<[script |-> "p2tr-prover", amount |-> 1000]>>] :
     s \in InjSeqs(ChainOutpoints, MaxInputs)}

\* Commit transactions as the prover builds them: no witness yet.
ProverCommits == CommitsWith("none")

\* Commit transactions as they are handed around: as built by the prover,
\* and signed by the wallet.
CommitCandidates == ProverCommits \cup CommitsWith("user")

\* Transactions on confirmed outputs and on outputs of the former: the last
\* input carries the prover's witness, the others none (as the prover builds
\* them) or the wallet's signature.
SpellCandidates ==
  {[version |-> 2, lockTime |-> 0,
    ins |-> [i \in DOMAIN s |->
               MkInput(s[i], IF i = Len(s) THEN "prover" ELSE w)],
    outs |-> <<[script |-> "p2tr-market", amount |-> 546],
               [script |-> "p2tr-user", amount |-> 48000]>>] :
     s \in InjSeqs(ChainOutpoints \cup
                   {Outpoint(WitnessFreeId(c), 0) : c \in ProverCommits}, MaxInputs),
     w \in {"none", "user"}}

\* The two-element array returned by the prover, in either order.
ProverPairs(commits, spells) ==
  {<<a, b>> : a \in commits, b \in commits \cup spells}
  \cup
  {<<b, a>> : a \in commits, b \in commits \cup spells}

\* MempoolUTXO values the wallet can select as funding.
FundingUtxos == {[txid |-> WitnessFreeId(t), vout |-> 0] : t \in ChainTxs}

\* ---------------------------------------------------------------------------
\* Errors and results
\* ---------------------------------------------------------------------------
\* An Error: its message, the text interpolated into it, and the transaction
\* ids that the message text contains.
Err(message, detail, refs) == [message |-> message, detail |-> detail, refs |-> refs]

NoError == Err("", "", {})

\* The Error thrown by btc.Transaction#id.
NotFinalized == Err("Transaction is not finalized", "", {})

\* The message of the Error: the text, and what is interpolated after it.
MessageOf(e) == IF e.detail = "" THEN e.message ELSE e.message \o ": " \o e.detail

Ok(commitTxid, spellTxid) ==
  [status |-> "ok", commitTxid |-> commitTxid, spellTxid |-> spellTxid,
   error |-> NoError]

Failure(e) ==
  [status |-> "error", commitTxid |-> NoId, spellTxid |-> NoId, error |-> e]

NoResult ==
  [status |-> "none", commitTxid |-> NoId, spellTxid |-> NoId, error |-> NoError]

\* ---------------------------------------------------------------------------
\* Signing (src/lib/bitcoin.ts)
\* ---------------------------------------------------------------------------
Signed(tx) == [ok |-> TRUE, tx |-> tx, error |-> NoError]

Thrown(e) == [ok |-> FALSE, tx |-> NoTx, error |-> e]

\* getUtxoValueFromTxHex / getOutputScriptFromTxHex: the output exists.
HasOutput(tx, vout) == vout + 1 \in DOMAIN tx.outs

\* signCommitTx re-adding every input of the unsigned transaction.
signCommitTx_AllInputs(unsignedTx, miningTx) ==
  IF Len(unsignedTx.ins) = 0
    THEN Thrown(Err("No input found in commit transaction", "", {}))
    ELSE IF ~HasOutput(miningTx, unsignedTx.ins[1].index)
      THEN Thrown(Err("Output not found in transaction", "", {}))
      ELSE Signed([version |-> 2, lockTime |-> 0,
                   ins |-> [i \in DOMAIN unsignedTx.ins |->
                              [txid |-> unsignedTx.ins[i].txid,
                               index |-> unsignedTx.ins[i].index,
                               sequence |-> unsignedTx.ins[i].sequence,
                               witness |-> "user"]],
                   outs |-> unsignedTx.outs])

\* signCommitTx: a fresh transaction with input 0 of the unsigned one, signed
\* with the tweaked key, and a copy of the outputs.
signCommitTx(unsignedTx, miningTx) ==
  IF Len(unsignedTx.ins) = 0
    THEN Thrown(Err("No input found in commit transaction", "", {}))
  ELSE IF ~HasOutput(miningTx, unsignedTx.ins[1].index)
    THEN Thrown(Err("Output not found in transaction", "", {}))
  ELSE Signed([version |-> 2, lockTime |-> 0,
               ins |-> <<[txid |-> unsignedTx.ins[1].txid,
                          index |-> unsignedTx.ins[1].index,
                          sequence |-> unsignedTx.ins[1].sequence,
                          witness |-> "user"]>>,
               outs |-> unsignedTx.outs])

\* signSpellTx: a fresh transaction whose only input is output 0 of the
\* commit transaction, and a copy of the outputs of the unsigned spell
\* transaction. It is signed with the wallet key and finalized, but the hex
\* returned is tx.toBytes(), the serialisation without witness data. The id
\* of the commit transaction is read first.
signSpellTx(unsignedTx, signedCommitTx) ==
  IF ~TxId(signedCommitTx).ok
    THEN Thrown(NotFinalized)
  ELSE IF ~HasOutput(signedCommitTx, 0)
    THEN Thrown(Err("Invalid commit tx output", "", {}))
  ELSE Signed([version |-> 2, lockTime |-> 0,
               ins |-> <<[txid |-> TxId(signedCommitTx).id, index |-> 0,
                          sequence |-> "ffffffff", witness |-> "none"]>>,
               outs |-> unsignedTx.outs])

\* signProverTransactions rebuilding and re-signing the spell transaction.
signProverTransactions_Rebuild(commitTx, spellTx, miningTx) ==
  LET commit == signCommitTx(commitTx, miningTx)
      spell == signSpellTx(spellTx, commit.tx) IN
    IF ~commit.ok
      THEN [ok |-> FALSE, error |-> commit.error, signedCommitTx |-> NoTx,
            signedSpellTx |-> NoTx, commitTxid |-> NoId, spellTxid |-> NoId]
      ELSE [ok |-> TRUE, error |-> NoError, signedCommitTx |-> commit.tx,
            signedSpellTx |-> spell.tx, commitTxid |-> TxId(commit.tx).id,
            spellTxid |-> WitnessFreeId(spell.tx)]

\* signProverTransactions: signs the commit transaction and passes the spell
\* hex through as received; it reads the id of the spell transaction, which
\* throws when an input of the spell is not finalized.
signProverTransactions(commitTx, spellTx, miningTx) ==
  LET commit == signCommitTx(commitTx, miningTx) IN
    IF ~commit.ok
      THEN [ok |-> FALSE, error |-> commit.error,
            signedCommitTx |-> NoTx, signedSpellTx |-> NoTx,
            commitTxid |-> NoId, spellTxid |-> NoId]
    ELSE IF ~TxId(spellTx).ok
      THEN [ok |-> FALSE, error |-> NotFinalized,
            signedCommitTx |-> NoTx, signedSpellTx |-> NoTx,
            commitTxid |-> NoId, spellTxid |-> NoId]
      ELSE [ok |-> TRUE, error |-> NoError,
            signedCommitTx |-> commit.tx, signedSpellTx |-> spellTx,
            commitTxid |-> TxId(commit.tx).id, spellTxid |-> TxId(spellTx).id]

\* ---------------------------------------------------------------------------
\* Classification (src/lib/bitcoin.ts)
\* ---------------------------------------------------------------------------
\* txInfo: the id and the inputs as "txid:vout" strings; reading the id
\* throws for a transaction that is not finalized.
txInfo(tx) ==
  [ok |-> TxId(tx).ok,
   error |-> IF TxId(tx).ok THEN NoError ELSE NotFinalized,
   id |-> TxId(tx).id,
   inputs |-> [i \in DOMAIN tx.ins |-> Outpoint(tx.ins[i].txid, tx.ins[i].index)]]

\* `${fundingUtxo.txid}:${fundingUtxo.vout}`
FundingUtxoId(utxo) == Outpoint(utxo.txid, utxo.vout)

\* Variant: every transaction is taken to spend the funding UTXO.
SpendsFunding_Always(info, fundingUtxoId) == TRUE

\* info.inputs.includes(fundingUtxoId)
SpendsFunding(info, fundingUtxoId) ==
  \E i \in DOMAIN info.inputs : info.inputs[i] = fundingUtxoId

\* info.inputs.some((input) => input.startsWith(`${id}:`))
SpendsOutputOf(info, id) ==
  \E i \in DOMAIN info.inputs : info.inputs[i].txid = id

Roles(commitTx, spellTx) ==
  [ok |-> TRUE, error |-> NoError, commitTx |-> commitTx, spellTx |-> spellTx]

NoRoles(e) == [ok |-> FALSE, error |-> e, commitTx |-> NoTx, spellTx |-> NoTx]

\* Variant: only the first transaction of the array can be the commit.
ClassifyRoles_FirstOnly(tx0, tx1, fundingUtxoId) ==
  LET tx0SpendsFunding == SpendsFunding(txInfo(tx0), fundingUtxoId)
      tx1SpendsFunding == SpendsFunding(txInfo(tx1), fundingUtxoId)
  IN
    IF tx0SpendsFunding /\ ~tx1SpendsFunding THEN Roles(tx0, tx1)
    ELSE IF tx0SpendsFunding /\ tx1SpendsFunding THEN
      IF SpendsOutputOf(txInfo(tx1), txInfo(tx0).id) THEN Roles(tx0, tx1)
      ELSE IF SpendsOutputOf(txInfo(tx0), txInfo(tx1).id) THEN Roles(tx1, tx0)
      ELSE NoRoles(Err("Both spend funding, but neither spends the other", "", {}))
    ELSE NoRoles(Err("Cannot determine commit tx: neither transaction spends funding UTXO",
                     "", {fundingUtxoId.txid}))

\* Variant: when both spend the funding UTXO the array order decides.
ClassifyRoles_NoDependency(tx0, tx1, fundingUtxoId) ==
  LET tx0SpendsFunding == SpendsFunding(txInfo(tx0), fundingUtxoId)
      tx1SpendsFunding == SpendsFunding(txInfo(tx1), fundingUtxoId)
  IN
    IF tx0SpendsFunding /\ ~tx1SpendsFunding THEN Roles(tx0, tx1)
    ELSE IF tx1SpendsFunding /\ ~tx0SpendsFunding THEN Roles(tx1, tx0)
    ELSE IF tx0SpendsFunding /\ tx1SpendsFunding THEN Roles(tx0, tx1)
    ELSE NoRoles(Err("Cannot determine commit tx: neither transaction spends funding UTXO",
                     "", {fundingUtxoId.txid}))

\* classifyProverTxs, first part: who is commit and who is spell.
ClassifyRoles(tx0, tx1, fundingUtxoId) ==
  LET tx0SpendsFunding == SpendsFunding(txInfo(tx0), fundingUtxoId)
      tx1SpendsFunding == SpendsFunding(txInfo(tx1), fundingUtxoId)
  IN
    IF tx0SpendsFunding /\ ~tx1SpendsFunding THEN Roles(tx0, tx1)
    ELSE IF tx1SpendsFunding /\ ~tx0SpendsFunding THEN Roles(tx1, tx0)
    ELSE IF tx0SpendsFunding /\ tx1SpendsFunding THEN
      IF SpendsOutputOf(txInfo(tx1), txInfo(tx0).id) THEN Roles(tx0, tx1)
      ELSE IF SpendsOutputOf(txInfo(tx0), txInfo(tx1).id) THEN Roles(tx1, tx0)
      ELSE NoRoles(Err("Both spend funding, but neither spends the other", "", {}))
    ELSE NoRoles(Err("Cannot determine commit tx: neither transaction spends funding UTXO",
                     "", {fundingUtxoId.txid}))

\* Variant: the roles are returned without the spell-spends-commit check.
classifyProverTxs_Unchecked(txHexes, fundingUtxoId) ==
  IF ~txInfo(txHexes[1]).ok THEN NoRoles(txInfo(txHexes[1]).error)
  ELSE IF ~txInfo(txHexes[2]).ok THEN NoRoles(txInfo(txHexes[2]).error)
  ELSE ClassifyRoles(txHexes[1], txHexes[2], fundingUtxoId)

\* classifyProverTxs: txInfo of both transactions, then the roles, refused
\* unless the spell spends the commit.
classifyProverTxs(txHexes, fundingUtxoId) ==
  IF ~txInfo(txHexes[1]).ok THEN NoRoles(txInfo(txHexes[1]).error)
  ELSE IF ~txInfo(txHexes[2]).ok THEN NoRoles(txInfo(txHexes[2]).error)
  ELSE LET r == ClassifyRoles(txHexes[1], txHexes[2], fundingUtxoId) IN
    IF ~r.ok THEN r
    ELSE IF ~SpendsOutputOf(txInfo(r.spellTx), txInfo(r.commitTx).id)
      THEN NoRoles(Err("No spell tx found: neither tx spends commit output", "", {}))
    ELSE r

\* ---------------------------------------------------------------------------
\* Network collaborators
\* ---------------------------------------------------------------------------
\* POST /api/bitcoin/submitpackage (route.ts): the JSON body and HTTP status
\* produced for a well-formed request, given whether the RPC credentials are
\* configured and what Bitcoin Core answered.
RelayRequiredMsg ==
  "Package relay required: configure BITCOIND_RPC or use a broadcaster that supports submitpackage."

RpcOutcomes == {"unreachable", "httpError", "rpcError", "noResults", "oneResult", "accepted"}

PkgBody(ok, success, error, ntxids) ==
  [transport |-> "ok", ok |-> ok, json |-> TRUE, success |-> success,
   error |-> error, ntxids |-> ntxids]

SubmitPackageRoute(configured, rpc) ==
  IF ~configured
    THEN PkgBody(FALSE, FALSE, RelayRequiredMsg, 0)
  ELSE IF rpc = "unreachable" THEN PkgBody(FALSE, FALSE, "fetch failed", 0)
  ELSE IF rpc = "httpError" THEN PkgBody(FALSE, FALSE, "Bitcoin Core RPC error: status", 0)
  ELSE IF rpc = "rpcError" THEN PkgBody(FALSE, FALSE, "Bitcoin Core RPC error: code", 0)
  ELSE IF rpc = "noResults" THEN PkgBody(TRUE, TRUE, "", 0)
  ELSE IF rpc = "oneResult" THEN PkgBody(TRUE, TRUE, "", 1)
  ELSE PkgBody(TRUE, TRUE, "", 2)

\* What fetch("/api/bitcoin/submitpackage") can deliver to the client: the
\* route's answers, a rejected fetch, a body that is not JSON, and bodies of
\* a relay that reports success=false or no error text.
PackageResponses ==
  {SubmitPackageRoute(c, o) : c \in BOOLEAN, o \in RpcOutcomes}
  \cup {[transport |-> "rejected", ok |-> FALSE, json |-> FALSE, success |-> FALSE,
         error |-> "", ntxids |-> 0],
        [transport |-> "ok", ok |-> FALSE, json |-> FALSE, success |-> FALSE,
         error |-> "", ntxids |-> 0],
        PkgBody(FALSE, FALSE, "", 0),
        PkgBody(TRUE, FALSE, "relay refused", 0),
        PkgBody(TRUE, FALSE, "", 0)}

\* What POST {MEMPOOL_API}/tx can deliver.
BroadcastResponses ==
  {[kind |-> "accepted", text |-> ""],
   [kind |-> "rejected", text |-> "bad-txns-inputs-missingorspent"],
   [kind |-> "rejected", text |-> "min relay fee not met"],
   [kind |-> "unreachable", text |-> ""]}

\* What GET {MEMPOOL_API}/tx/{txid}/hex can deliver.
TxHexResponses == {"found", "empty", "failed"}

\* broadcastTransaction: the txid text of the response, or an Error.
broadcastTransaction(tx, resp) ==
  IF resp.kind = "unreachable" THEN [ok |-> FALSE, txid |-> NoId,
                                     error |-> Err("fetch failed", "", {})]
  ELSE IF resp.kind = "rejected" THEN [ok |-> FALSE, txid |-> NoId,
                                       error |-> Err("Broadcast failed", resp.text, {})]
  ELSE [ok |-> TRUE, txid |-> WitnessFreeId(tx), error |-> NoError]

\* Body of the try block of the package path and its catch clause: the value
\* returned or the Error thrown for a response to the submitpackage request.
PackageOutcome(resp, commitTx, spellTx) ==
  IF resp.transport = "rejected" THEN Failure(Err("fetch failed", "", {}))
  ELSE IF ~resp.json THEN Failure(Err("SyntaxError: not valid JSON", "", {}))
  ELSE IF ~resp.ok THEN
    IF resp.error = RelayRequiredMsg
      THEN Failure(Err(RelayRequiredMsg, "", {}))
    ELSE IF resp.error # "" THEN Failure(Err(resp.error, "", {}))
    ELSE Failure(Err("Package broadcast failed: status", "", {}))
  ELSE IF ~resp.success THEN
    IF resp.error = RelayRequiredMsg
      THEN Failure(Err(RelayRequiredMsg, "", {}))
    ELSE IF resp.error # "" THEN Failure(Err(resp.error, "", {}))
    ELSE Failure(Err("Package broadcast failed: unknown error from submitpackage", "", {}))
  ELSE IF resp.ntxids < 2
    THEN Failure(Err("Package broadcast returned fewer txids, expected 2", "", {}))
  ELSE Ok(WitnessFreeId(commitTx), WitnessFreeId(spellTx))

\* ---------------------------------------------------------------------------
\* Fee estimation and UTXO selection
\* ---------------------------------------------------------------------------
\* Sizes are kept in half vbytes, so that 10.5 and 57.5 stay integers:
\* 2 * (10.5 + inputs * 57.5 + outputs * 43).
HalfVsize(inputs, outputs) == 21 + inputs * 115 + outputs * 86

\* Math.ceil(h / 2) for a number h of halves.
CeilHalf(h) == (h + 1) \div 2

\* estimateTaprootTxSize: Math.ceil(10.5 + numInputs * 57.5 + numOutputs * 43).
estimateTaprootTxSize(numInputs, numOutputs) ==
  CeilHalf(HalfVsize(numInputs, numOutputs))

\* calculateTaprootFee with an explicit fee rate: Math.ceil(size * feeRate).
calculateTaprootFee(numInputs, numOutputs, rate) ==
  estimateTaprootTxSize(numInputs, numOutputs) * rate

\* The estimateFee closure of selectUTXOs and of UtxoService.selectUtxos:
\* Math.ceil(vsize * feeRate) on the unrounded vsize.
estimateFee_OneOutput(inputs, outputs, rate) ==
  CeilHalf(HalfVsize(inputs, 1) * rate)

estimateFee(inputs, outputs, rate) ==
  CeilHalf(HalfVsize(inputs, outputs) * rate)

PROTECTED_VALUES == {330, 333, 546, 777, 1000, 10000}

isProtectedValue(value) == value \in PROTECTED_VALUES

\* The sort comparator: confirmed first, then value descending.
CompareUtxos(a, b) ==
  IF a.confirmed /\ ~b.confirmed THEN -1
  ELSE IF ~a.confirmed /\ b.confirmed THEN 1
  ELSE b.value - a.value

\* Array.prototype.sort is stable: u goes behind every element that does not
\* compare after it.
InsertUtxo(sorted, u) ==
  LET k == Cardinality({i \in 1..Len(sorted) : CompareUtxos(sorted[i], u) <= 0})
  IN  SubSeq(sorted, 1, k) \o <<u>> \o SubSeq(sorted, k + 1, Len(sorted))

RECURSIVE SortUtxos(_)
SortUtxos(list) ==
  IF list = <<>> THEN <<>>
  ELSE InsertUtxo(SortUtxos(SubSeq(list, 1, Len(list) - 1)), list[Len(list)])

RECURSIVE SumValues(_)
SumValues(list) ==
  IF list = <<>> THEN 0
  ELSE list[1].value + SumValues(SubSeq(list, 2, Len(list)))

\* return null
NoSelection == [found |-> FALSE, selected |-> <<>>, total |-> 0, fee |-> 0, change |-> 0]

\* The for loop over sorted, entered with n - 1 UTXOs already pushed.
RECURSIVE Accumulate(_, _, _, _)
Accumulate(sorted, n, target, rate) ==
  IF n > Len(sorted) THEN NoSelection
  ELSE LET selected == SubSeq(sorted, 1, n)
           total    == SumValues(selected)
           fee      == estimateFee(n, 2, rate)
           needed   == target + fee
       IN  IF total >= needed
             THEN [found |-> TRUE, selected |-> selected, total |-> total,
                   fee |-> fee, change |-> total - target - fee]
             ELSE Accumulate(sorted, n + 1, target, rate)

\* UtxoService.selectUtxos: { selected, total, fee, change } or null.
selectUtxos(list, target, rate) == Accumulate(SortUtxos(list), 1, target, rate)

\* selectUTXOs of bitcoin.ts: the same accumulation; the running total is a
\* local and is not part of the value returned.
selectUTXOs(list, target, rate) ==
  LET r == selectUtxos(list, target, rate)
  IN  [found |-> r.found, selected |-> r.selected, fee |-> r.fee, change |-> r.change]

\* Input domain of the selection operations.
UtxoValues == {100, 546, 10000, 30000, 50000}

Utxos == [value : UtxoValues, confirmed : BOOLEAN]

UtxoLists == UNION {[1..n -> Utxos] : n \in 0..MaxUtxos}

TargetAmounts == {5000, 40000, 49500, 50000}

FeeRates == {1, 2, 3}

\* ---------------------------------------------------------------------------
\* Key derivation (BIP39 / BIP32 / BIP86 / BIP341)
\* ---------------------------------------------------------------------------
\* The curve is modelled by the additive group of integers modulo CurveOrder
\* with generator 1: a private key d in 1..CurveOrder-1 has the public point
\* d, the points k and CurveOrder - k share their x coordinate, and the one
\* with 2 * k <= CurveOrder is the one with the even y coordinate.
XCoord(point) == IF 2 * point <= CurveOrder THEN point ELSE CurveOrder - point

HasEvenY(point) == 2 * point <= CurveOrder

\* secp256k1 public key of a private key, 33-byte compressed form.
PublicKey(privateKey) ==
  LET point == privateKey % CurveOrder
  IN  [prefix |-> IF HasEvenY(point) THEN 2 ELSE 3, x |-> XCoord(point)]

\* lift_x: the point with even y for an x coordinate.
LiftX(x) == x

toXOnly(pubkey) == pubkey.x

\* taggedHash("TapTweak", xOnlyPubkey) as a scalar.
TapTweak(xOnlyPubkey) == (xOnlyPubkey * xOnlyPubkey + 3) % CurveOrder

tweakPrivateKey(privateKey, publicKey) ==
  LET xOnlyPubkey == toXOnly(publicKey)
      tweak       == TapTweak(xOnlyPubkey)
      isOddY      == publicKey.prefix = 3
      privKey     == IF isOddY THEN CurveOrder - privateKey ELSE privateKey
  IN  (privKey + tweak) % CurveOrder

\* OP_1 (0x51) + PUSH32 (0x20) + 32-byte pubkey
createP2TRScript(xOnlyPubkey) == <<81, 32, xOnlyPubkey>>

TESTNET4 == [bech32 |-> "tb", wif |-> 239]

MAINNET == [bech32 |-> "bc", wif |-> 128]

\* btc.p2tr(xOnlyPubkey, undefined, network): the output key is the internal
\* key tweaked by its own TapTweak hash (BIP86, no script tree); the address
\* is the bech32m encoding of witness version 1 and the output key.
p2tr(xOnlyPubkey, network) ==
  LET outputKey == XCoord((LiftX(xOnlyPubkey) + TapTweak(xOnlyPubkey)) % CurveOrder)
  IN  [address |-> [hrp |-> network.bech32, version |-> 1, program |-> outputKey],
       script  |-> <<81, 32, outputKey>>]

createP2TRAddress(xOnlyPubkey, network) == p2tr(xOnlyPubkey, network).address

\* The output script an address decodes to.
ScriptOfAddress(address) == <<80 + address.version, 32, address.program>>

\* A mnemonic: which phrase it is, its number of words and whether its
\* checksum bits match.
Mnemonics == [phrase : 1..NumPhrases, words : {11, 12}, checksum : BOOLEAN]

NoMnemonic == [phrase |-> 0, words |-> 0, checksum |-> FALSE]

\* bip39.validateMnemonic(mnemonic, wordlist)
validateMnemonic(m) == m.words \in {12, 15, 18, 21, 24} /\ m.checksum

\* bip39.mnemonicToSeed throws 'Invalid mnemonic' on a wrong number of words
\* and does not look at the checksum.
SeedAccepted(m) == m.words \in {12, 15, 18, 21, 24}

mnemonicToSeed(m) == 2 * m.phrase + (IF m.checksum THEN 1 ELSE 0)

\* HDKey.fromMasterSeed(seed).derive(`m/86'/${coinType}/0'/${chain}/${index}`)
DerivationPath(coinType, chain, index) ==
  [purpose |-> 86, coinType |-> coinType, account |-> 0, chain |-> chain, index |-> index]

DerivePrivateKey(seed, path) ==
  ((seed * 5 + path.coinType * 3 + path.chain * 7 + path.index) % (CurveOrder - 1)) + 1

encodeWIF(privateKey, isTestnet) ==
  [prefix |-> IF isTestnet THEN 239 ELSE 128, key |-> privateKey, compressed |-> TRUE]

KeyFailure(message) == [status |-> "error", error |-> message]

KeySuccess(value) == [status |-> "ok", value |-> value]

\* generateTaprootKeysForIndex of bitcoin.ts.
generateTaprootKeysForIndex(seedPhrase, index, isTestnet) ==
  IF ~SeedAccepted(seedPhrase) THEN KeyFailure("Invalid mnemonic")
  ELSE
    LET seed              == mnemonicToSeed(seedPhrase)
        derivationPath    == DerivationPath(IF isTestnet THEN 1 ELSE 0, 0, index)
        privateKey        == DerivePrivateKey(seed, derivationPath)
        publicKey         == PublicKey(privateKey)
        network           == IF isTestnet THEN TESTNET4 ELSE MAINNET
        internalPubkey    == toXOnly(publicKey)
        tweakedPrivateKey == tweakPrivateKey(privateKey, publicKey)
        address           == createP2TRAddress(internalPubkey, network)
        script            == createP2TRScript(internalPubkey)
    IN  KeySuccess([index |-> index, derivationPath |-> derivationPath,
                    privateKey |-> privateKey,
                    tweakedPrivateKey |-> tweakedPrivateKey,
                    internalPubkey |-> internalPubkey, publicKey |-> publicKey,
                    address |-> address, script |-> script])

\* deriveWalletFromMnemonic of bitcoin.ts.
deriveWalletFromMnemonic(m, index, isTestnet) ==
  IF ~validateMnemonic(m) THEN KeyFailure("Invalid mnemonic")
  ELSE
    LET r == generateTaprootKeysForIndex(m, index, isTestnet)
    IN  IF r.status = "error" THEN r
        ELSE LET keys == r.value
             IN  KeySuccess([address |-> keys.address, publicKey |-> keys.publicKey,
                             privateKey |-> keys.privateKey,
                             internalPubkey |-> keys.internalPubkey,
                             tweakedPrivateKey |-> keys.tweakedPrivateKey,
                             wif |-> encodeWIF(keys.privateKey, isTestnet),
                             path |-> keys.derivationPath, index |-> index])

\* WalletService.generateTaprootKeysForChainAndIndex, for the service built by
\* new WalletService(isTestnet).
generateTaprootKeysForChainAndIndex(isTestnet, m, chain, index) ==
  IF ~SeedAccepted(m) THEN KeyFailure("Invalid mnemonic")
  ELSE
    LET seed           == mnemonicToSeed(m)
        derivationPath == DerivationPath(IF isTestnet THEN 1 ELSE 0, chain, index)
        privateKey     == DerivePrivateKey(seed, derivationPath)
        publicKey      == PublicKey(privateKey)
        internalPubkey == toXOnly(publicKey)
        tweakedPrivKey == tweakPrivateKey(privateKey, publicKey)
        taproot        == p2tr(internalPubkey, IF isTestnet THEN TESTNET4 ELSE MAINNET)
        script         == createP2TRScript(internalPubkey)
    IN  KeySuccess([index |-> index, chain |-> chain, address |-> taproot.address,
                    derivationPath |-> derivationPath, privateKey |-> privateKey,
                    tweakedPrivateKey |-> tweakedPrivKey,
                    internalPubkey |-> internalPubkey, publicKey |-> publicKey,
                    script |-> script,
                    network |-> IF isTestnet THEN "testnet4" ELSE "mainnet"])

\* The loops of generateMultipleAddresses and generateExtendedAddresses: the
\* key data of one chain for the indices 0 .. count - 1.
GenerateChain(isTestnet, m, chain, count) ==
  [i \in 1..count |->
     generateTaprootKeysForChainAndIndex(isTestnet, m, chain, i - 1).value]

\* WalletService.createWallet once finalMnemonic is known; imported tells
\* whether the caller passed it.
createWallet(isTestnet, finalMnemonic, imported) ==
  IF ~validateMnemonic(finalMnemonic) THEN KeyFailure("Invalid mnemonic phrase")
  ELSE
    LET addresses == GenerateChain(isTestnet, finalMnemonic, 0, 3)
        extended  == [recipient |-> GenerateChain(isTestnet, finalMnemonic, 0, 12),
                      change    |-> GenerateChain(isTestnet, finalMnemonic, 1, 12)]
    IN  KeySuccess([mnemonic |-> finalMnemonic,
                    address |-> addresses[1].address,
                    publicKey |-> addresses[1].publicKey,
                    internalPubkey |-> addresses[1].internalPubkey,
                    addresses |-> addresses,
                    extendedAddresses |-> extended,
                    isGenerated |-> ~imported, isImported |-> imported])

\* ---------------------------------------------------------------------------
\* Fee rates and their cache
\* ---------------------------------------------------------------------------
FEE_CACHE_TTL == 60000

\* cachedFeeRates = null
NoRates == [fastest |-> 0, halfHour |-> 0, hour |-> 0, economy |-> 0, minimum |-> 0]

\* The rates of the catch branch of getFeeRates.
FallbackRates == [fastest |-> 2, halfHour |-> 2, hour |-> 1, economy |-> 1, minimum |-> 1]

\* Bodies of /v1/fees/recommended.
NoBody ==
  [fastestFee |-> 0, halfHourFee |-> 0, hourFee |-> 0, economyFee |-> 0, minimumFee |-> 0]

ApiBodies ==
  {[fastestFee |-> h + 2, halfHourFee |-> h + 1, hourFee |-> h,
    economyFee |-> 2, minimumFee |-> 1] : h \in {3, 5}}

\* What fetch does: rejects, answers with a non-OK status, or answers OK with
\* a body that response.json() parses or rejects.
FetchResponses ==
  {[kind |-> "throws", json |-> "none", body |-> NoBody],
   [kind |-> "notOk", json |-> "none", body |-> NoBody],
   [kind |-> "ok", json |-> "invalid", body |-> NoBody]}
    \cup {[kind |-> "ok", json |-> "valid", body |-> b] : b \in ApiBodies}

NoResponse == [kind |-> "none", json |-> "none", body |-> NoBody]

\* The FeeRates object built from the parsed body.
RatesOf(data) ==
  [fastest |-> data.fastestFee, halfHour |-> data.halfHourFee, hour |-> data.hourFee,
   economy |-> data.economyFee, minimum |-> data.minimumFee]

\* cachedFeeRates && Date.now() - feeRatesCacheTime < FEE_CACHE_TTL
CacheFresh_NoExpiry(cached, cacheTime, t) == cached # NoRates

CacheFresh(cached, cacheTime, t) ==
  cached # NoRates /\ t - cacheTime < FEE_CACHE_TTL

\* A call of getFeeRates, or of calculateTaprootFee(numInputs, 2[, feeRate]).
IdleCall ==
  [pc |-> "idle", op |-> "none", numInputs |-> 0, response |-> NoResponse,
   status |-> "none", rates |-> NoRates, source |-> "none", fee |-> 0]

\* The call resolves with rates; calculateTaprootFee goes on to
\* Math.ceil(size * rates.hour).
Resolve(call, rates, source) ==
  [call EXCEPT !.pc = "done", !.status = "ok", !.rates = rates, !.source = source,
               !.fee = IF call.op = "calculateTaprootFee"
                         THEN estimateTaprootTxSize(call.numInputs, 2) * rates.hour
                         ELSE 0]

\* The catch branch: the fetch rejected, the response was not OK or its body
\* did not parse.
FetchFailed_Rethrow(call) == [call EXCEPT !.pc = "done", !.status = "error"]

FetchFailed(call) == Resolve(call, FallbackRates, "fallback")

\* ---------------------------------------------------------------------------
\* Wallet store (zustand, persist middleware under the name "echo-wallet")
\* ---------------------------------------------------------------------------
\* wallet: null
NoWallet == [address |-> "", balance |-> 0, utxos |-> <<>>]

\* The state the store is created with.
InitialWalletState ==
  [wallet |-> NoWallet, mnemonic |-> NoMnemonic, isGenerated |-> FALSE,
   isImported |-> FALSE, isLoading |-> FALSE, error |-> "", action |-> "@@INIT"]

\* partialize: what the persist middleware writes to storage.
partialize(state) ==
  [mnemonic |-> state.mnemonic, isGenerated |-> state.isGenerated,
   isImported |-> state.isImported]

\* localStorage without the "echo-wallet" item.
NoItem == [present |-> FALSE, state |-> partialize(InitialWalletState)]

\* persist's setItem of the partialized state.
SetItem(state) == [present |-> TRUE, state |-> partialize(state)]

\* persist's merge on hydration: the stored fields over the initial state.
Rehydrate(item) ==
  IF item.present
    THEN [InitialWalletState EXCEPT !.mnemonic = item.state.mnemonic,
                                    !.isGenerated = item.state.isGenerated,
                                    !.isImported = item.state.isImported,
                                    !.action = "@@HYDRATE"]
    ELSE [InitialWalletState EXCEPT !.action = "@@HYDRATE"]

\* Arguments of the store actions.
StoreWallets ==
  {NoWallet,
   [address |-> "tb1p", balance |-> 0, utxos |-> <<>>],
   [address |-> "tb1p", balance |-> 50000,
    utxos |-> <<[value |-> 50000, confirmed |-> TRUE]>>]}

StoreUtxoLists ==
  {<<>>, <<[value |-> 50000, confirmed |-> TRUE]>>,
   <<[value |-> 30000, confirmed |-> TRUE], [value |-> 546, confirmed |-> FALSE]>>}

StoreMnemonics == {m \in Mnemonics \cup {NoMnemonic} : m.phrase <= 1}

updateBalance(state, balance) ==
  [state EXCEPT !.wallet = IF state.wallet # NoWallet
                             THEN [state.wallet EXCEPT !.balance = balance]
                             ELSE NoWallet,
                !.action = "updateBalance"]

updateUtxos(state, list) ==
  [state EXCEPT !.wallet = IF state.wallet # NoWallet
                             THEN [state.wallet EXCEPT !.utxos = list,
                                                       !.balance = SumValues(list)]
                             ELSE NoWallet,
                !.action = "updateUtxos"]

clearWallet(state) ==
  [state EXCEPT !.wallet = NoWallet, !.mnemonic = NoMnemonic, !.isGenerated = FALSE,
                !.isImported = FALSE, !.error = "", !.action = "clearWallet"]

isWalletReady(state) ==
  state.wallet.address # "" /\ (state.isGenerated \/ state.isImported)

\* ---------------------------------------------------------------------------
\* UTXO scanning (UtxoService)
\* ---------------------------------------------------------------------------
REQUEST_DELAY_MS == 150

DEFAULT_MIN_VALUE == 1000

\* The values the indexer reports: a protected value under the default
\* minimum, a protected value equal to it, and an ordinary one.
ScanValues == {546, 1000, 20000}

RawUtxo(value) ==
  [txid |-> IF value = 20000 THEN "t2" ELSE "t1",
   vout |-> IF value = 1000 THEN 1 ELSE 0,
   value |-> value]

\* Responses of GET /address/:address/utxo: every list of distinct UTXOs in
\* ascending order of value.
IndexerUtxoLists ==
  {<<>>} \cup {<<RawUtxo(v)>> : v \in ScanValues}
    \cup {<<RawUtxo(v), RawUtxo(w)>> : v \in {546}, w \in {1000, 20000}}
    \cup {<<RawUtxo(1000), RawUtxo(20000)>>,
           <<RawUtxo(546), RawUtxo(1000), RawUtxo(20000)>>}

\* fetchAddressUtxos throws when the response is not ok.
FetchFailure == [ok |-> FALSE, utxos |-> <<>>]

FetchOutcomes == {[ok |-> TRUE, utxos |-> l] : l \in IndexerUtxoLists} \cup {FetchFailure}

\* filterProtectedUtxos with the filter left out.
filterProtectedUtxos_KeepAll(list) == list

filterProtectedUtxos(list) ==
  LET Spendable(u) == ~isProtectedValue(u.value) IN SelectSeq(list, Spendable)

\* scanAddress on a fetched list: minimum value first, then protected values.
scanAddress(rawUtxos, cfg) ==
  LET AboveMin(u) == u.value >= cfg.minValue
      kept == SelectSeq(rawUtxos, AboveMin) IN
    IF ~cfg.includeProtected THEN filterProtectedUtxos(kept) ELSE kept

Enrich(u, keyData) ==
  [txid |-> u.txid, vout |-> u.vout, value |-> u.value,
   address |-> keyData, addressType |-> keyData.type]

\* The loop of scanAddressWithKeys on a fetched list.
RECURSIVE ScanLoop(_, _, _, _)
ScanLoop(rawUtxos, keyData, cfg, acc) ==
  IF rawUtxos = <<>> THEN acc
  ELSE LET u == Head(rawUtxos) IN
    IF u.value < cfg.minValue
      THEN ScanLoop(Tail(rawUtxos), keyData, cfg, acc)
      ELSE IF ~cfg.includeProtected /\ isProtectedValue(u.value)
        THEN ScanLoop(Tail(rawUtxos), keyData, cfg,
                      [acc EXCEPT !.protectedCount = @ + 1])
        ELSE ScanLoop(Tail(rawUtxos), keyData, cfg,
                      [acc EXCEPT !.utxos = Append(@, Enrich(u, keyData))])

scanAddressWithKeys(rawUtxos, keyData, cfg) ==
  ScanLoop(rawUtxos, keyData, cfg, [utxos |-> <<>>, protectedCount |-> 0])

\* slice that returns the whole array.
Slice_All(list, end) == list

\* Array.prototype.slice(0, end) for a count end.
Slice(list, end) ==
  SubSeq(list, 1, IF end < Len(list) THEN end ELSE Len(list))

RECURSIVE DedupeFrom(_, _)
DedupeFrom(list, seen) ==
  IF list = <<>> THEN <<>>
  ELSE LET key == <<Head(list).txid, Head(list).vout>> IN
    IF key \in seen THEN DedupeFrom(Tail(list), seen)
    ELSE <<Head(list)>> \o DedupeFrom(Tail(list), seen \cup {key})

\* Deduplication by txid:vout, first occurrence kept.
Dedupe(list) == DedupeFrom(list, {})

EmptyScanResult ==
  [utxos |-> <<>>, totalValue |-> 0, protectedCount |-> 0,
   scannedAddresses |-> 0, errors |-> <<>>]

NoScanCfg ==
  [includeProtected |-> FALSE, minValue |-> 0, maxAddresses |-> 0,
   recipient |-> <<>>, change |-> <<>>]

NoScan ==
  [pc |-> "idle", by |-> "none", queue |-> <<>>, next |-> 1,
   result |-> EmptyScanResult, fetched |-> <<>>, log |-> <<>>]

\* ---------------------------------------------------------------------------
\* Cast route (POST /api/charms/cast)
\* ---------------------------------------------------------------------------
\* Transaction hexes by where they come from; "" is an absent field.
ProverCommitHex == "prover-commit"
ProverSpellHex == "prover-spell"

\* HTTP statuses of a prover answer that is not ok.
ProverErrorStatuses == {400, 422, 500}

\* Responses of the prover: an answer that is not ok with its status, an
\* abort by the timeout, or the array of transaction hexes (status 200).
ProverResponses ==
  {[kind |-> "error", status |-> st, txs |-> <<>>] : st \in ProverErrorStatuses}
    \cup {[kind |-> "timeout", status |-> 0, txs |-> <<>>],
          [kind |-> "ok", status |-> 200, txs |-> <<>>],
          [kind |-> "ok", status |-> 200, txs |-> <<ProverSpellHex>>],
          [kind |-> "ok", status |-> 200, txs |-> <<ProverCommitHex, ProverSpellHex>>]}

\* The body of the request: whether spell, fundingUtxo, fundingUtxoValue and
\* changeAddress are there (truthy), the broadcast flag and the signed hexes.
CastRequests ==
  [spell : BOOLEAN, fundingUtxo : BOOLEAN, fundingUtxoValue : BOOLEAN,
   changeAddress : BOOLEAN, broadcast : BOOLEAN,
   signedCommitTx : {"", "client-commit", "client-tx"},
   signedSpellTx : {"", "client-spell", "client-tx"}]

NoCastReq ==
  [spell |-> FALSE, fundingUtxo |-> FALSE, fundingUtxoValue |-> FALSE,
   changeAddress |-> FALSE, broadcast |-> FALSE, signedCommitTx |-> "",
   signedSpellTx |-> ""]

\* broadcastTx returns the response text, the txid of the posted hex.
CastTxid(hex) == [of |-> hex]

NoCastTxid == CastTxid("")

NoCastResponse ==
  [status |-> 0, error |-> "", commit_tx |-> "", spell_tx |-> "",
   commitTxid |-> NoCastTxid, spellTxid |-> NoCastTxid,
   broadcast |-> FALSE, needsSignature |-> FALSE]

CastError(status, error) ==
  [NoCastResponse EXCEPT !.status = status, !.error = error]

NoCast ==
  [pc |-> "idle", txs |-> <<>>, finalCommitTx |-> "", finalSpellTx |-> "",
   commitTxid |-> NoCastTxid, sent |-> <<>>, response |-> NoCastResponse]

\* txs[i] || null
TxAt(txs, i) == IF i \in DOMAIN txs THEN txs[i] ELSE ""

\* a || b on strings
OrElse(a, b) == IF a # "" THEN a ELSE b

Undefined == [defined |-> FALSE, utxo |-> [txid |-> NoId, vout |-> 0]]

Defined(utxo) == [defined |-> TRUE, utxo |-> utxo]

\* ---------------------------------------------------------------------------
\* Market operations (createMarket, mintShares, redeemShares, trade)
\* ---------------------------------------------------------------------------
FlowOps == {"create", "mint", "redeem", "trade"}

\* The markets of the operations: m1 is active and held, m2 is resolved, m3
\* is the market createMarket makes and is unknown before.
MarketIds == {"m1", "m2", "m3"}

SharesMoved == 3

\* The operations called, with their market: createMarket makes m3; m3 is
\* not found by mintShares and m1 is not resolved for redeemShares.
Operations ==
  {<<"create", "m3">>, <<"mint", "m1">>, <<"mint", "m3">>, <<"redeem", "m1">>,
   <<"redeem", "m2">>, <<"trade", "m1">>}

\* The calls of the operations in one behaviour, in the order they start.
Calls == 1..NumCalls

InitialMarkets ==
  <<[id |-> "m1", status |-> "Active"], [id |-> "m2", status |-> "Resolved"]>>

InitialPositions == <<[marketId |-> "m1", yesTokens |-> 5, noTokens |-> 5]>>

NoApp ==
  [markets |-> <<>>, transactions |-> <<>>, positions |-> <<>>, error |-> "",
   isLoading |-> FALSE, isProcessing |-> FALSE, lastTxid |-> NoId]

\* What a call of signAndBroadcast holds before it has run.
IdleFrame ==
  [pc |-> "idle", caller |-> "none", tx1Hex |-> NoTx, tx2Hex |-> NoTx,
   fundingArg |-> Undefined, commitTx |-> NoTx, spellTx |-> NoTx,
   broadcastedCommitTxid |-> NoId, netLog |-> <<>>, signedCommit |-> NoTx,
   signedSpell |-> NoTx, result |-> NoResult]

NoCall ==
  [op |-> "none", marketId |-> "", stage |-> "idle", thrown |-> FALSE,
   fundingUtxo |-> Undefined, frame |-> IdleFrame]

NoFlow == [i \in Calls |-> NoCall]

\* The utxo of the wallet's address that a confirmed or pending transaction
\* pays.
MempoolUtxo(t, vout, confirmed) ==
  [txid |-> WitnessFreeId(t), vout |-> vout, value |-> t.outs[1].amount, confirmed |-> confirmed]

\* The transaction of the blacklisted outpoint.
BlacklistedTx ==
  [version |-> 1, lockTime |-> 0, ins |-> <<>>,
   outs |-> <<[script |-> "p2tr-user", amount |-> 60000]>>]

Blacklist == {Outpoint(WitnessFreeId(BlacklistedTx), 1)}

\* Answers of fetchUTXOs: lists of distinct UTXOs, with or without the
\* blacklisted one in front.
WalletUtxoLists ==
  LET chain == {[i \in DOMAIN s |-> MempoolUtxo(s[i][1], 0, s[i][2])] :
                  s \in InjSeqs(ChainTxs \X BOOLEAN, NumChainTxs)}
      listed == {l \in chain : \A i, j \in DOMAIN l : l[i].txid = l[j].txid => i = j}
  IN  {<<>>, <<MempoolUtxo(BlacklistedTx, 1, TRUE)>>}
        \cup listed
        \cup {<<MempoolUtxo(BlacklistedTx, 1, TRUE)>> \o l : l \in listed}

\* selectBestUtxo: the blacklist, then confirmed first and largest first.
selectBestUtxo(list) ==
  LET NotBlacklisted(u) == Outpoint(u.txid, u.vout) \notin Blacklist
      available == SelectSeq(list, NotBlacklisted) IN
    IF Len(list) = 0
      THEN [ok |-> FALSE, utxo |-> Undefined,
            error |-> "No UTXOs available. Please fund your wallet first."]
    ELSE IF Len(available) = 0
      THEN [ok |-> FALSE, utxo |-> Undefined,
            error |-> "No available UTXOs. All were previously used."]
      ELSE LET best == SortUtxos(available)[1] IN
             [ok |-> TRUE, utxo |-> Defined([txid |-> best.txid, vout |-> best.vout]),
              error |-> ""]

\* The wallet store of a connected wallet, with or without its mnemonic.
ConnectedWallet ==
  [address |-> "tb1p", balance |-> 50000,
   utxos |-> <<[value |-> 50000, confirmed |-> TRUE]>>]

ImportedMnemonic == [phrase |-> 1, words |-> 12, checksum |-> TRUE]

Connected(m) ==
  [InitialWalletState EXCEPT !.wallet = ConnectedWallet, !.mnemonic = m,
                             !.isImported = TRUE,
                             !.action = IF m = NoMnemonic THEN "setMnemonic"
                                                          ELSE "setWallet"]

\* The data of an Error: a CharmsApiError carries the body of the answer.
NoData == [present |-> FALSE, details |-> "", error |-> ""]

\* Answers to POST /api/charms/cast as castSpell gets them: the request
\* rejected; a body with or without error and details under a status that is
\* not OK; under an OK status success with both transactions or with one
\* missing, or no success with or without an error text.
CastAnswers ==
  {[kind |-> "rejected", success |-> FALSE, txs |-> FALSE, error |-> "", details |-> ""]}
  \cup {[kind |-> "notOk", success |-> FALSE, txs |-> FALSE,
          error |-> e[1], details |-> e[2]] :
           e \in {<<"Prover API error", "invalid spell">>, <<"Prover timeout", "">>,
                  <<"", "">>}}
  \cup {[kind |-> "ok", success |-> TRUE, txs |-> t, error |-> "", details |-> ""] :
           t \in BOOLEAN}
  \cup {[kind |-> "ok", success |-> FALSE, txs |-> FALSE, error |-> e, details |-> ""] :
           e \in {"", "Spell rejected"}}

\* castSpell: the body is returned under an OK status; otherwise a
\* CharmsApiError with the body as its data is thrown.
castSpell(answer) ==
  IF answer.kind = "rejected"
    THEN [ok |-> FALSE, message |-> "fetch failed", data |-> NoData]
  ELSE IF answer.kind = "notOk"
    THEN [ok |-> FALSE, message |-> OrElse(answer.error, "Cast failed"),
          data |-> [present |-> TRUE, details |-> answer.details,
                    error |-> answer.error]]
    ELSE [ok |-> TRUE, message |-> "", data |-> NoData]

\* The message of the catch block: err.message; createMarket puts the
\* details, or else the error, of the data of a CharmsApiError after it.
CatchMessage(op, message, data) ==
  IF op = "create" /\ data.present /\ data.details # ""
    THEN message \o ": " \o data.details
  ELSE IF op = "create" /\ data.present /\ data.error # ""
    THEN message \o ": " \o data.error
    ELSE message

\* catch and finally without the finally block.
CatchAndFinally_NoFinally(a, message) == [a EXCEPT !.error = message]

\* The catch block records the error; the finally block clears the flags.
CatchAndFinally(a, message) ==
  [a EXCEPT !.error = message, !.isLoading = FALSE, !.isProcessing = FALSE]

Transaction(txid, type, marketId) ==
  [txid |-> txid, status |-> "pending", type |-> type, marketId |-> marketId]

\* A transaction recorded by an earlier operation.
OldTransaction == Transaction(WitnessFreeId(BlacklistedTx), "mint", "m1")

\* { ...value, ...updates }
Spread(value, updates) ==
  [f \in DOMAIN value \cup DOMAIN updates |->
     IF f \in DOMAIN updates THEN updates[f] ELSE value[f]]

\* useMarketsStore: addMarket puts the market in front.
addMarket(markets, market) == <<market>> \o markets

\* usePortfolioStore: addPosition puts the position at the end,
\* addTransaction puts the transaction in front.
addPosition(positions, position) == Append(positions, position)

updatePosition(positions, marketId, updates) ==
  [i \in DOMAIN positions |->
     IF positions[i].marketId = marketId
       THEN Spread(positions[i], updates) ELSE positions[i]]

addTransaction(transactions, tx) == <<tx>> \o transactions

\* Arguments of the store calls made from outside the operations.
MarketLists ==
  {<<[id |-> "m2", status |-> "Resolved"], [id |-> "m1", status |-> "Active"]>>}

PositionLists == {<<[marketId |-> "m2", yesTokens |-> 1, noTokens |-> 0]>>}

MarketUpdates == {[status |-> "Resolved"]}

TransactionUpdates == {[marketId |-> "m2"]}

TransactionStatuses == {"confirmed"}

\* The market and the transaction those calls name.
StoreMarketIds == {"m1"}

\* markets.find((m) => m.id === marketId)
FindMarket(markets, marketId) ==
  LET Wanted(m) == m.id = marketId
      hits == SelectSeq(markets, Wanted) IN
    IF Len(hits) = 0 THEN [found |-> FALSE, status |-> ""]
                     ELSE [found |-> TRUE, status |-> hits[1].status]

\* mintShares: updatePosition of the position held, addPosition otherwise.
MintPosition(positions, marketId) ==
  LET Held(p) == p.marketId = marketId
      held == SelectSeq(positions, Held) IN
    IF Len(held) > 0
      THEN updatePosition(positions, marketId,
             [yesTokens |-> held[1].yesTokens + SharesMoved,
              noTokens |-> held[1].noTokens + SharesMoved])
      ELSE addPosition(positions,
             [marketId |-> marketId, yesTokens |-> SharesMoved,
              noTokens |-> SharesMoved])

\* trade: updatePosition after SharesMoved Yes shares were sold for No
\* shares, when a position is held.
TradePosition(positions, marketId) ==
  LET Held(p) == p.marketId = marketId
      held == SelectSeq(positions, Held) IN
    IF Len(held) > 0
      THEN updatePosition(positions, marketId,
             [yesTokens |-> held[1].yesTokens - SharesMoved,
              noTokens |-> held[1].noTokens + SharesMoved])
      ELSE positions

\* What an operation does after signAndBroadcast has returned the ids.
Completed(a, op, marketId, spellTxid) ==
  LET recorded ==
        [a EXCEPT !.transactions = addTransaction(@, Transaction(spellTxid, op, marketId)),
                  !.lastTxid = spellTxid,
                  !.isLoading = FALSE, !.isProcessing = FALSE] IN
    IF op = "create"
      THEN [recorded EXCEPT
              !.markets = addMarket(@, [id |-> marketId, status |-> "Active"])]
    ELSE IF op = "mint"
      THEN [recorded EXCEPT !.positions = MintPosition(@, marketId)]
    ELSE IF op = "trade"
      THEN [recorded EXCEPT !.positions = TradePosition(@, marketId)]
      ELSE recorded

\* ---------------------------------------------------------------------------
\* State
\* ---------------------------------------------------------------------------
VARIABLES
  pc,                     \* where the running operation stands
  proverTxs,              \* the two transactions returned by the prover
  fundingUtxo,            \* the funding UTXO selected by the flow
  mnemonic,               \* useWalletStore mnemonic: "valid" or "none"
  caller,                 \* which exported operation was invoked
  tx1Hex, tx2Hex,         \* arguments of broadcastTxPackage
  fundingArg,             \* third argument of broadcastTxPackage
  commitTx, spellTx,      \* commitTxHex / spellTxHex after classification
  broadcastedCommitTxid,  \* local of the sequential path
  netLog,                 \* network submissions issued, with their outcome
  signedCommit,           \* result of signCommitTx
  signedSpell,            \* result of signSpellTx / signProverTransactions
  result,                 \* value returned or Error thrown to the caller; before
                          \* signAndBroadcast resumes, the rejection it awaits
  utxos, targetAmount,    \* arguments of the selection operations
  feeRate,
  includeProtected,       \* UtxoServiceConfig.includeProtected
  selection,              \* which selection ran and what it returned
  keyArgs,                \* arguments of the key-derivation entry points
  keyResult,              \* which entry point ran and what it returned
  cachedFeeRates,         \* module variable of bitcoin.ts
  feeRatesCacheTime,      \* module variable of bitcoin.ts
  now,                    \* Date.now()
  calls,                  \* the fee operations in progress, per caller
  walletStore,            \* state of useWalletStore
  localStorage,            \* the "echo-wallet" item of the browser's storage
  signArgs,               \* arguments of the signing operations
  signOut,                 \* which signing operation ran and what it returned
  scanCfg,                \* UtxoService options and the arguments of a scan
  scan,                    \* position and result of the scan in progress
  castReq,                \* body of the request to the cast route
  cast,                    \* position of the cast route's handler, what it sent and answered
  flow,                   \* the create/mint/redeem/trade operations, per call
  app,                    \* market list, transaction history, positions, hook state
  running,                \* the call whose signAndBroadcast the broadcast variables hold
  storeCalls,             \* calls made to the stores from outside the operations
  NEXT_PUBLIC_APP_VK      \* process.env.NEXT_PUBLIC_APP_VK of the build

vars == <<pc, proverTxs, fundingUtxo, mnemonic, caller, tx1Hex, tx2Hex, fundingArg,
          commitTx, spellTx, broadcastedCommitTxid, netLog, signedCommit,
          signedSpell, result,
          utxos, targetAmount, feeRate, includeProtected, selection,
          keyArgs, keyResult, cachedFeeRates, feeRatesCacheTime, now, calls,
          walletStore, localStorage,
          signArgs, signOut,
          scanCfg, scan,
          castReq, cast,
          flow, app, running, storeCalls, NEXT_PUBLIC_APP_VK>>

broadcastVars == <<pc, proverTxs, fundingUtxo, mnemonic, caller, tx1Hex, tx2Hex,
                   fundingArg, commitTx, spellTx, broadcastedCommitTxid, netLog,
                   signedCommit, signedSpell, result>>

selectVars == <<utxos, targetAmount, feeRate, includeProtected, selection>>

\* What the broadcast operations never touch.
keyVars == <<keyArgs, keyResult>>

feeVars == <<cachedFeeRates, feeRatesCacheTime, now, calls>>

storeVars == <<walletStore, localStorage>>

signVars == <<signArgs, signOut>>

scanVars == <<scanCfg, scan>>

castVars == <<castReq, cast>>

flowVars == <<flow, app, running, storeCalls, NEXT_PUBLIC_APP_VK>>

aside == <<selectVars, keyVars, feeVars, storeVars, signVars, scanVars, castVars, flowVars>>

inputs == <<proverTxs, fundingUtxo, mnemonic>>

Submission(kind, txs) ==
  [kind |-> kind, txs |-> txs, outcome |-> "pending", reply |-> ""]

\* The last submission of the log, settled with the error text of the answer.
Settle(log, outcome, reply) ==
  [log EXCEPT ![Len(log)].outcome = outcome, ![Len(log)].reply = reply]

ChainTxById(txid) == CHOOSE t \in ChainTxs : WitnessFreeId(t) = txid

\* No selection is under way.
SelectIdle ==
  /\ utxos = <<>>
  /\ targetAmount = 0
  /\ feeRate = 0
  /\ includeProtected = FALSE
  /\ selection = [by |-> "none", out |-> NoSelection]

NoKeyArgs == [mnemonic |-> NoMnemonic, chain |-> 0, index |-> 0, isTestnet |-> TRUE]

NoKeyResult == [by |-> "none", out |-> [status |-> "none"]]

\* No key derivation is under way.
KeysIdle ==
  /\ keyArgs = NoKeyArgs
  /\ keyResult = NoKeyResult

Callers == 1..NumCallers

TickMs == FEE_CACHE_TTL \div 2

Epoch == 2 * FEE_CACHE_TTL

\* The module has just been loaded and no fee operation is under way.
FeesIdle ==
  /\ cachedFeeRates = NoRates
  /\ feeRatesCacheTime = 0
  /\ now = Epoch
  /\ calls = [c \in Callers |-> IdleCall]

\* The store has just been created in a browser without a stored item.
StoreIdle ==
  /\ walletStore = InitialWalletState
  /\ localStorage = NoItem

NoSignOut ==
  [by |-> "none", ok |-> FALSE, error |-> NoError, signedCommitTx |-> NoTx,
   signedSpellTx |-> NoTx, commitTxid |-> NoId, spellTxid |-> NoId]

\* No signing operation has been called on its own.
SignIdle ==
  /\ signArgs = [commitTx |-> NoTx, spellTx |-> NoTx, miningTx |-> NoTx]
  /\ signOut = NoSignOut

\* No scan has been asked for.
ScanIdle ==
  /\ scanCfg = NoScanCfg
  /\ scan = NoScan

\* No request has reached the cast route.
CastIdle ==
  /\ castReq = NoCastReq
  /\ cast = NoCast

\* No operation has been started; the stores are empty.
FlowIdle ==
  /\ flow = NoFlow
  /\ app = NoApp
  /\ running = 0
  /\ storeCalls = 0
  /\ NEXT_PUBLIC_APP_VK = ""

Init ==
  /\ pc = "idle"
  /\ proverTxs \in ProverPairs(CommitCandidates, SpellCandidates)
  /\ fundingUtxo \in FundingUtxos
  /\ mnemonic \in {"valid", "none"}
  /\ caller = "none"
  /\ tx1Hex = NoTx
  /\ tx2Hex = NoTx
  /\ fundingArg = Undefined
  /\ commitTx = NoTx
  /\ spellTx = NoTx
  /\ broadcastedCommitTxid = NoId
  /\ netLog = <<>>
  /\ signedCommit = NoTx
  /\ signedSpell = NoTx
  /\ result = NoResult
  /\ SelectIdle
  /\ KeysIdle
  /\ FeesIdle
  /\ StoreIdle
  /\ FlowIdle
  /\ CastIdle
  /\ ScanIdle
  /\ SignIdle

\* ---------------------------------------------------------------------------
\* broadcastTxPackage (src/lib/bitcoin.ts)
\* ---------------------------------------------------------------------------
\* Variant: the package case is never detected.
spellAlsoSpendsFunding_Never(spellTxInfo, fundingUtxoId) == FALSE

\* const spellAlsoSpendsFunding = spellTxInfo.inputs.includes(fundingUtxoId)
spellAlsoSpendsFunding(spellTxInfo, fundingUtxoId) ==
  SpendsFunding(spellTxInfo, fundingUtxoId)

\* broadcastTxPackage up to its first await: the funding id, txInfo of both
\* transactions for the log, classification, choice of the path and the
\* first network request.
BroadcastTxPackageBegin(t1, t2, farg) ==
  /\ tx1Hex' = t1
  /\ tx2Hex' = t2
  /\ fundingArg' = farg
  /\ broadcastedCommitTxid' = NoId
  /\ IF ~farg.defined
       THEN /\ pc' = "failed"
            /\ result' = Failure(Err("Cannot read properties of undefined (reading 'txid')", "", {}))
            /\ UNCHANGED <<commitTx, spellTx, netLog>>
       ELSE LET fundingUtxoId == FundingUtxoId(farg.utxo)
                tx1 == txInfo(t1)
                tx2 == txInfo(t2)
                c == classifyProverTxs(<<t1, t2>>, fundingUtxoId)
            IN IF ~tx1.ok \/ ~tx2.ok
                 THEN /\ pc' = "failed"
                      /\ result' = Failure(IF ~tx1.ok THEN tx1.error ELSE tx2.error)
                      /\ UNCHANGED <<commitTx, spellTx, netLog>>
               ELSE IF ~c.ok
                 THEN /\ pc' = "failed"
                      /\ result' = Failure(c.error)
                      /\ UNCHANGED <<commitTx, spellTx, netLog>>
                 ELSE /\ commitTx' = c.commitTx
                      /\ spellTx' = c.spellTx
                      /\ result' = NoResult
                      /\ IF spellAlsoSpendsFunding(txInfo(c.spellTx), fundingUtxoId)
                           THEN /\ netLog' = Append(netLog, Submission("package", <<c.commitTx, c.spellTx>>))
                                /\ pc' = "packagePending"
                           ELSE /\ netLog' = Append(netLog, Submission("tx", <<c.commitTx>>))
                                /\ pc' = "commitPending"

\* The exported broadcastTxPackage called with a pair and the funding UTXO.
CallBroadcastTxPackage ==
  /\ pc = "idle"
  /\ caller' = "broadcastTxPackage"
  /\ BroadcastTxPackageBegin(proverTxs[1], proverTxs[2], Defined(fundingUtxo))
  /\ UNCHANGED <<aside, inputs, signedCommit, signedSpell>>

\* Variant: a failed package submission falls back to the sequential path.
AfterPackageResponse_Fallback(resp, log, commit, spell) ==
  LET out == PackageOutcome(resp, commit, spell) IN
    IF out.status = "ok"
      THEN [pc |-> "done", result |-> out, netLog |-> Settle(log, "ok", resp.error)]
      ELSE [pc |-> "commitPending", result |-> NoResult,
            netLog |-> Append(Settle(log, "failed", resp.error),
                              Submission("tx", <<commit>>))]

\* What follows the answer to the submitpackage request.
AfterPackageResponse(resp, log, commit, spell) ==
  LET out == PackageOutcome(resp, commit, spell) IN
    [pc |-> IF out.status = "ok" THEN "done" ELSE "failed",
     result |-> out,
     netLog |-> Settle(log, IF out.status = "ok" THEN "ok" ELSE "failed", resp.error)]

PackageResponse(resp) ==
  /\ pc = "packagePending"
  /\ LET n == AfterPackageResponse(resp, netLog, commitTx, spellTx) IN
       /\ pc' = n.pc
       /\ result' = n.result
       /\ netLog' = n.netLog
  /\ UNCHANGED <<aside, inputs, caller, tx1Hex, tx2Hex, fundingArg, commitTx, spellTx,
                 broadcastedCommitTxid, signedCommit, signedSpell>>

\* Variant: the spell is broadcast whatever the commit broadcast answered.
AfterCommitResponse_Continue(resp, log, commit) ==
  LET b == broadcastTransaction(commit, resp) IN
    [pc |-> "propagationDelay", result |-> NoResult,
     netLog |-> Settle(log, IF b.ok THEN "ok" ELSE "failed", resp.text),
     txid |-> b.txid]

\* What follows the answer to the broadcast of the commit transaction.
AfterCommitResponse(resp, log, commit) ==
  LET b == broadcastTransaction(commit, resp) IN
    IF b.ok
      THEN [pc |-> "propagationDelay", result |-> NoResult,
            netLog |-> Settle(log, "ok", resp.text), txid |-> b.txid]
      ELSE [pc |-> "failed", result |-> Failure(b.error),
            netLog |-> Settle(log, "failed", resp.text), txid |-> NoId]

CommitBroadcastResponse(resp) ==
  /\ pc = "commitPending"
  /\ LET n == AfterCommitResponse(resp, netLog, commitTx) IN
       /\ pc' = n.pc
       /\ result' = n.result
       /\ netLog' = n.netLog
       /\ broadcastedCommitTxid' = n.txid
  /\ UNCHANGED <<aside, inputs, caller, tx1Hex, tx2Hex, fundingArg, commitTx, spellTx,
                 signedCommit, signedSpell>>

\* The one-second timer fires and the spell broadcast is issued.
PropagationDelayElapsed ==
  /\ pc = "propagationDelay"
  /\ netLog' = Append(netLog, Submission("tx", <<spellTx>>))
  /\ pc' = "spellPending"
  /\ UNCHANGED <<aside, inputs, caller, tx1Hex, tx2Hex, fundingArg, commitTx, spellTx,
                 broadcastedCommitTxid, signedCommit, signedSpell, result>>

\* A variant that submits the spell again after a failed submission.
AfterSpellResponse_Retry(resp, log, spell, commitTxid) ==
  LET b == broadcastTransaction(spell, resp) IN
    IF b.ok
      THEN [pc |-> "done", result |-> Ok(commitTxid, b.txid),
            netLog |-> Settle(log, "ok", resp.text)]
      ELSE [pc |-> "spellPending", result |-> NoResult,
            netLog |-> Append(Settle(log, "failed", resp.text),
                              Submission("tx", <<spell>>))]

\* What follows the answer to the broadcast of the spell transaction.
AfterSpellResponse(resp, log, spell, commitTxid) ==
  LET b == broadcastTransaction(spell, resp) IN
    IF b.ok
      THEN [pc |-> "done", result |-> Ok(commitTxid, b.txid),
            netLog |-> Settle(log, "ok", resp.text)]
      ELSE [pc |-> "failed", result |-> Failure(b.error),
            netLog |-> Settle(log, "failed", resp.text)]

SpellBroadcastResponse(resp) ==
  /\ pc = "spellPending"
  /\ LET n == AfterSpellResponse(resp, netLog, spellTx, broadcastedCommitTxid) IN
       /\ pc' = n.pc
       /\ result' = n.result
       /\ netLog' = n.netLog
  /\ UNCHANGED <<aside, inputs, caller, tx1Hex, tx2Hex, fundingArg, commitTx, spellTx,
                 broadcastedCommitTxid, signedCommit, signedSpell>>

\* ---------------------------------------------------------------------------
\* signAndBroadcast (src/lib/utils.ts); the prover pair is two non-empty hex
\* strings, commit_tx first
\* ---------------------------------------------------------------------------
\* Up to the first await: the mnemonic check and the request for the mining tx.
SignAndBroadcastEnter ==
  /\ pc = "idle"
  /\ caller' = "signAndBroadcast"
  /\ IF mnemonic = "none"
       THEN /\ pc' = "failed"
            /\ result' = Failure(Err("Wallet mnemonic not available. Please reconnect wallet.", "", {}))
       ELSE /\ pc' = "fetchingMiningTx"
            /\ result' = NoResult
  /\ UNCHANGED <<inputs, tx1Hex, tx2Hex, fundingArg, commitTx, spellTx,
                 broadcastedCommitTxid, netLog, signedCommit, signedSpell>>

\* signAndBroadcast called on its own.
SignAndBroadcastBegin ==
  /\ SignAndBroadcastEnter
  /\ UNCHANGED aside

\* fetchTxHex answers: a failed or empty answer ends the operation; otherwise
\* setProcessing(true, "Signing transactions...") and signProverTransactions
\* is called, which waits for the key derivation.
MiningTxResponds(resp) ==
  /\ pc = "fetchingMiningTx"
  /\ IF resp = "failed"
       THEN /\ pc' = "failed"
            /\ result' = Failure(Err("Failed to fetch tx", "Not Found", {}))
     ELSE IF resp = "empty"
       THEN /\ pc' = "failed"
            /\ result' = Failure(Err("Failed to fetch funding transaction", "", {}))
       ELSE /\ pc' = "signingProverTxs"
            /\ result' = NoResult
  /\ UNCHANGED <<inputs, caller, tx1Hex, tx2Hex, fundingArg, commitTx, spellTx,
                 broadcastedCommitTxid, netLog, signedCommit, signedSpell>>

\* signAndBroadcast called on its own: the mining tx is answered.
MiningTxResponse(resp) == MiningTxResponds(resp) /\ UNCHANGED aside

\* The key derivation resolves inside signProverTransactions: the commit is
\* signed, the id of the spell is read and the promise of
\* signProverTransactions settles, with the pair or with the Error thrown.
\* signAndBroadcast has not resumed yet; result holds the rejection.
SignProverTransactionsSettles ==
  /\ pc = "signingProverTxs"
  /\ pc' = "proverTxsSettled"
  /\ LET sig == signProverTransactions(proverTxs[1], proverTxs[2],
                                       ChainTxById(fundingUtxo.txid))
     IN IF ~sig.ok
          THEN /\ result' = Failure(sig.error)
               /\ UNCHANGED <<signedCommit, signedSpell>>
          ELSE /\ signedCommit' = sig.signedCommitTx
               /\ signedSpell' = sig.signedSpellTx
               /\ result' = NoResult
  /\ UNCHANGED <<inputs, caller, tx1Hex, tx2Hex, fundingArg, commitTx, spellTx,
                 broadcastedCommitTxid, netLog>>

\* signAndBroadcast called on its own: signProverTransactions settles.
SignProverTransactionsSettle == SignProverTransactionsSettles /\ UNCHANGED aside

\* signAndBroadcast resumes after await signProverTransactions: the rejection
\* is thrown on, or setProcessing(true, "Broadcasting transactions...") and
\* broadcastTxPackage is called with the two transactions (and no third
\* argument).
SignAndBroadcastContinues ==
  /\ pc = "proverTxsSettled"
  /\ IF result.status = "error"
       THEN /\ pc' = "failed"
            /\ UNCHANGED <<result, tx1Hex, tx2Hex, fundingArg, commitTx, spellTx,
                           broadcastedCommitTxid, netLog>>
       ELSE BroadcastTxPackageBegin(signedCommit, signedSpell, Undefined)
  /\ UNCHANGED <<inputs, caller, signedCommit, signedSpell>>

\* signAndBroadcast called on its own: it resumes after the signing.
SignAndBroadcastContinue == SignAndBroadcastContinues /\ UNCHANGED aside

\* ---------------------------------------------------------------------------
\* The exported signers called on the prover pair
\* ---------------------------------------------------------------------------
CallSignCommitTx ==
  /\ pc = "idle"
  /\ mnemonic = "valid"
  /\ caller' = "signCommitTx"
  /\ LET sig == signCommitTx(proverTxs[1], ChainTxById(fundingUtxo.txid)) IN
       IF sig.ok
         THEN /\ pc' = "commitSigned"
              /\ signedCommit' = sig.tx
              /\ result' = NoResult
         ELSE /\ pc' = "failed"
              /\ signedCommit' = NoTx
              /\ result' = Failure(sig.error)
  /\ UNCHANGED <<aside, inputs, tx1Hex, tx2Hex, fundingArg, commitTx, spellTx,
                 broadcastedCommitTxid, netLog, signedSpell>>

CallSignSpellTx ==
  /\ pc = "commitSigned"
  /\ caller' = "signSpellTx"
  /\ LET sig == signSpellTx(proverTxs[2], signedCommit) IN
       IF sig.ok
         THEN /\ pc' = "spellSigned"
              /\ signedSpell' = sig.tx
              /\ result' = NoResult
         ELSE /\ pc' = "failed"
              /\ signedSpell' = NoTx
              /\ result' = Failure(sig.error)
  /\ UNCHANGED <<aside, inputs, tx1Hex, tx2Hex, fundingArg, commitTx, spellTx,
                 broadcastedCommitTxid, netLog, signedCommit>>

\* ---------------------------------------------------------------------------
\* Specification
\* ---------------------------------------------------------------------------
Next ==
  \/ CallBroadcastTxPackage
  \/ \E resp \in PackageResponses : PackageResponse(resp)
  \/ \E resp \in BroadcastResponses : CommitBroadcastResponse(resp)
  \/ PropagationDelayElapsed
  \/ \E resp \in BroadcastResponses : SpellBroadcastResponse(resp)
  \/ SignAndBroadcastBegin
  \/ \E resp \in TxHexResponses : MiningTxResponse(resp)
  \/ SignProverTransactionsSettle
  \/ SignAndBroadcastContinue
  \/ CallSignCommitTx
  \/ CallSignSpellTx

Spec == Init /\ [][Next]_vars

\* ---------------------------------------------------------------------------
\* Specification of the selection operations
\* ---------------------------------------------------------------------------
\* No broadcast is under way.
BroadcastIdle ==
  /\ pc = "idle"
  /\ proverTxs = <<NoTx, NoTx>>
  /\ fundingUtxo = [txid |-> NoId, vout |-> 0]
  /\ mnemonic = "none"
  /\ caller = "none"
  /\ tx1Hex = NoTx
  /\ tx2Hex = NoTx
  /\ fundingArg = Undefined
  /\ commitTx = NoTx
  /\ spellTx = NoTx
  /\ broadcastedCommitTxid = NoId
  /\ netLog = <<>>
  /\ signedCommit = NoTx
  /\ signedSpell = NoTx
  /\ result = NoResult

InitSelect ==
  /\ BroadcastIdle
  /\ utxos \in UtxoLists
  /\ targetAmount \in TargetAmounts
  /\ feeRate \in FeeRates
  /\ includeProtected \in BOOLEAN
  /\ selection = [by |-> "none", out |-> NoSelection]
  /\ KeysIdle
  /\ FeesIdle
  /\ StoreIdle
  /\ FlowIdle
  /\ CastIdle
  /\ ScanIdle
  /\ SignIdle

\* selectUTXOs(utxos, targetAmount, feeRate) of bitcoin.ts.
CallSelectUTXOs ==
  /\ selection.by = "none"
  /\ selection' = [by |-> "selectUTXOs",
                   out |-> selectUTXOs(utxos, targetAmount, feeRate)]
  /\ UNCHANGED <<broadcastVars, flowVars, castVars, scanVars, signVars, keyVars, feeVars, storeVars, utxos, targetAmount, feeRate, includeProtected>>

\* new UtxoService({ includeProtected }).selectUtxos(utxos, targetAmount, feeRate).
CallSelectUtxos ==
  /\ selection.by = "none"
  /\ selection' = [by |-> "UtxoService.selectUtxos",
                   out |-> selectUtxos(utxos, targetAmount, feeRate)]
  /\ UNCHANGED <<broadcastVars, flowVars, castVars, scanVars, signVars, keyVars, feeVars, storeVars, utxos, targetAmount, feeRate, includeProtected>>

NextSelect ==
  \/ CallSelectUTXOs
  \/ CallSelectUtxos

SpecSelect == InitSelect /\ [][NextSelect]_vars

\* ---------------------------------------------------------------------------
\* Specification of the key-derivation entry points
\* ---------------------------------------------------------------------------
InitKeys ==
  /\ BroadcastIdle
  /\ SelectIdle
  /\ keyArgs \in [mnemonic : Mnemonics \cup {NoMnemonic}, chain : {0, 1},
                   index : 0..MaxIndex, isTestnet : BOOLEAN]
  /\ keyResult = NoKeyResult
  /\ FeesIdle
  /\ StoreIdle
  /\ FlowIdle
  /\ CastIdle
  /\ ScanIdle
  /\ SignIdle

Returned(by, out) ==
  /\ keyResult.by = "none"
  /\ keyResult' = [by |-> by, out |-> out]
  /\ UNCHANGED <<broadcastVars, flowVars, castVars, scanVars, signVars, selectVars, feeVars, storeVars, keyArgs>>

CallGenerateTaprootKeysForIndex ==
  /\ keyArgs.mnemonic # NoMnemonic
  /\ Returned("generateTaprootKeysForIndex",
              generateTaprootKeysForIndex(keyArgs.mnemonic, keyArgs.index,
                                          keyArgs.isTestnet))

CallDeriveWalletFromMnemonic ==
  /\ keyArgs.mnemonic # NoMnemonic
  /\ Returned("deriveWalletFromMnemonic",
              deriveWalletFromMnemonic(keyArgs.mnemonic, keyArgs.index,
                                       keyArgs.isTestnet))

CallGenerateTaprootKeysForChainAndIndex ==
  /\ keyArgs.mnemonic # NoMnemonic
  /\ Returned("generateTaprootKeysForChainAndIndex",
              generateTaprootKeysForChainAndIndex(keyArgs.isTestnet, keyArgs.mnemonic,
                                                  keyArgs.chain, keyArgs.index))

\* createWallet(mnemonic?): without a mnemonic a fresh one is generated.
CallCreateWallet ==
  IF keyArgs.mnemonic = NoMnemonic
    THEN \E generated \in {m \in Mnemonics : m.words = 12 /\ m.checksum} :
           Returned("createWallet", createWallet(keyArgs.isTestnet, generated, FALSE))
    ELSE Returned("createWallet",
                  createWallet(keyArgs.isTestnet, keyArgs.mnemonic, TRUE))

NextKeys ==
  \/ CallGenerateTaprootKeysForIndex
  \/ CallDeriveWalletFromMnemonic
  \/ CallGenerateTaprootKeysForChainAndIndex
  \/ CallCreateWallet

SpecKeys == InitKeys /\ [][NextKeys]_vars

\* ---------------------------------------------------------------------------
\* Specification of the fee operations
\* ---------------------------------------------------------------------------
InitFees ==
  /\ BroadcastIdle
  /\ SelectIdle
  /\ KeysIdle
  /\ FeesIdle
  /\ StoreIdle
  /\ FlowIdle
  /\ CastIdle
  /\ ScanIdle
  /\ SignIdle

\* getFeeRates up to its first await: the cached rates, or the fetch is sent.
EnterGetFeeRates(c, call) ==
  /\ calls' = [calls EXCEPT ![c] =
       IF CacheFresh(cachedFeeRates, feeRatesCacheTime, now)
         THEN Resolve(call, cachedFeeRates, "cache")
         ELSE [call EXCEPT !.pc = "fetching"]]
  /\ UNCHANGED <<broadcastVars, flowVars, castVars, scanVars, signVars, selectVars, keyVars, storeVars, cachedFeeRates,
                 feeRatesCacheTime, now>>

CallGetFeeRates(c) ==
  /\ calls[c].pc = "idle"
  /\ EnterGetFeeRates(c, [IdleCall EXCEPT !.op = "getFeeRates"])

\* calculateTaprootFee(numInputs, 2): without a fee rate (feeRate = 0 stands
\* for undefined; !feeRate holds of both) it awaits getFeeRates.
CallCalculateTaprootFee(c, numInputs, rate) ==
  /\ calls[c].pc = "idle"
  /\ LET call == [IdleCall EXCEPT !.op = "calculateTaprootFee",
                                  !.numInputs = numInputs]
     IN  IF rate = 0
           THEN EnterGetFeeRates(c, call)
           ELSE /\ calls' = [calls EXCEPT ![c] =
                     [call EXCEPT !.pc = "done", !.status = "ok", !.source = "argument",
                                  !.fee = calculateTaprootFee(numInputs, 2, rate)]]
                /\ UNCHANGED <<broadcastVars, flowVars, castVars, scanVars, signVars, selectVars, keyVars, storeVars, cachedFeeRates,
                               feeRatesCacheTime, now>>

\* await fetch(...) settles; a non-OK response throws into the catch branch.
FetchSettles(c, resp) ==
  /\ calls[c].pc = "fetching"
  /\ calls' = [calls EXCEPT ![c] =
       IF resp.kind = "ok"
         THEN [calls[c] EXCEPT !.pc = "parsing", !.response = resp]
         ELSE FetchFailed([calls[c] EXCEPT !.response = resp])]
  /\ UNCHANGED <<broadcastVars, flowVars, castVars, scanVars, signVars, selectVars, keyVars, storeVars, cachedFeeRates,
                 feeRatesCacheTime, now>>

\* await response.json() settles; the rates are stored and returned.
JsonSettles(c) ==
  /\ calls[c].pc = "parsing"
  /\ IF calls[c].response.json = "valid"
       THEN LET rates == RatesOf(calls[c].response.body)
            IN  /\ cachedFeeRates' = rates
                /\ feeRatesCacheTime' = now
                /\ calls' = [calls EXCEPT ![c] = Resolve(calls[c], rates, "fetch")]
       ELSE /\ calls' = [calls EXCEPT ![c] = FetchFailed(calls[c])]
            /\ UNCHANGED <<cachedFeeRates, feeRatesCacheTime>>
  /\ UNCHANGED <<broadcastVars, flowVars, castVars, scanVars, signVars, selectVars, keyVars, storeVars, now>>

\* The caller has taken the result.
CallerContinues(c) ==
  /\ calls[c].pc = "done"
  /\ calls' = [calls EXCEPT ![c] = IdleCall]
  /\ UNCHANGED <<broadcastVars, flowVars, castVars, scanVars, signVars, selectVars, keyVars, storeVars, cachedFeeRates,
                 feeRatesCacheTime, now>>

\* Time passes.
Tick ==
  /\ now < Epoch + MaxTicks * TickMs
  /\ now' = now + TickMs
  /\ UNCHANGED <<broadcastVars, flowVars, castVars, scanVars, signVars, selectVars, keyVars, storeVars, cachedFeeRates,
                 feeRatesCacheTime, calls>>

NextFees ==
  \/ \E c \in Callers : CallGetFeeRates(c)
  \/ \E c \in Callers, rate \in {0, 2} : CallCalculateTaprootFee(c, 2, rate)
  \/ \E c \in Callers, resp \in FetchResponses : FetchSettles(c, resp)
  \/ \E c \in Callers : JsonSettles(c)
  \/ \E c \in Callers : CallerContinues(c)
  \/ Tick

SpecFees == InitFees /\ [][NextFees]_vars

\* ---------------------------------------------------------------------------
\* Specification of the wallet store
\* ---------------------------------------------------------------------------
InitStore ==
  /\ BroadcastIdle
  /\ SelectIdle
  /\ KeysIdle
  /\ FeesIdle
  /\ StoreIdle
  /\ FlowIdle
  /\ CastIdle
  /\ ScanIdle
  /\ SignIdle

\* set(...) under persist: the new state, then setItem of its partialized form.
Set(state) ==
  /\ walletStore' = state
  /\ localStorage' = SetItem(state)
  /\ UNCHANGED <<broadcastVars, flowVars, castVars, scanVars, signVars, selectVars, keyVars, feeVars>>

SetWallet(wallet) == Set([walletStore EXCEPT !.wallet = wallet, !.action = "setWallet"])

SetMnemonic(m) == Set([walletStore EXCEPT !.mnemonic = m, !.action = "setMnemonic"])

SetGenerated(isGenerated) ==
  Set([walletStore EXCEPT !.isGenerated = isGenerated, !.action = "setGenerated"])

SetImported(isImported) ==
  Set([walletStore EXCEPT !.isImported = isImported, !.action = "setImported"])

SetLoading(isLoading) ==
  Set([walletStore EXCEPT !.isLoading = isLoading, !.action = "setLoading"])

SetError(error) == Set([walletStore EXCEPT !.error = error, !.action = "setError"])

UpdateBalance(balance) == Set(updateBalance(walletStore, balance))

UpdateUtxos(list) == Set(updateUtxos(walletStore, list))

ClearWallet == Set(clearWallet(walletStore))

\* The page is reloaded: the store is created anew and hydrated from storage;
\* hydration writes nothing to storage.
PageReload ==
  /\ walletStore' = Rehydrate(localStorage)
  /\ UNCHANGED <<broadcastVars, flowVars, castVars, scanVars, signVars, selectVars, keyVars,
                 feeVars, localStorage>>

NextStore ==
  \/ \E wallet \in StoreWallets : SetWallet(wallet)
  \/ \E m \in StoreMnemonics : SetMnemonic(m)
  \/ \E b \in BOOLEAN : SetGenerated(b)
  \/ \E b \in BOOLEAN : SetImported(b)
  \/ \E b \in BOOLEAN : SetLoading(b)
  \/ \E e \in {"", "Failed to load wallet"} : SetError(e)
  \/ \E balance \in {0, 50000} : UpdateBalance(balance)
  \/ \E list \in StoreUtxoLists : UpdateUtxos(list)
  \/ ClearWallet
  \/ PageReload

SpecStore == InitStore /\ [][NextStore]_vars

\* ---------------------------------------------------------------------------
\* Specification of the signing operations
\* ---------------------------------------------------------------------------
\* Output lists of a commit transaction: the output the spell spends, alone
\* or with a change output before or after it.
CommitOutputLists ==
  {<<[script |-> "p2tr-prover", amount |-> 1000]>>,
   <<[script |-> "p2tr-prover", amount |-> 1000],
     [script |-> "p2tr-user", amount |-> 48000]>>,
   <<[script |-> "p2tr-user", amount |-> 48000],
     [script |-> "p2tr-prover", amount |-> 1000]>>}

\* Unsigned commit transactions as the signer may be handed them: any
\* version, lock time and input sequence, no input up to MaxInputs inputs,
\* one or two outputs.
UnsignedCommits ==
  {[version |-> v, lockTime |-> l,
    ins |-> [i \in DOMAIN s |->
               [txid |-> s[i].txid, index |-> s[i].index, sequence |-> q,
                witness |-> "none"]],
    outs |-> o] :
     v \in {1, 2}, l \in {0, 500000}, q \in {"ffffffff", "fffffffd"},
     s \in InjSeqs(ChainOutpoints, MaxInputs) \cup {<<>>},
     o \in CommitOutputLists}

\* Spell transactions on a commit transaction: the last input spends output
\* 0 of the commit and carries the prover's witness, an input before it
\* spends a confirmed output with witness w.
SpellsWith(commit, w) ==
  {[version |-> 2, lockTime |-> 0,
    ins |-> [i \in DOMAIN s |->
               MkInput(s[i], IF i = Len(s) THEN "prover" ELSE w)],
    outs |-> <<[script |-> "p2tr-market", amount |-> 546],
               [script |-> "p2tr-user", amount |-> 48000]>>] :
     s \in {<<Outpoint(WitnessFreeId(commit), 0)>>}
            \cup {<<op, Outpoint(WitnessFreeId(commit), 0)>> : op \in ChainOutpoints}}

\* The spell transactions the prover builds on a commit transaction: only
\* its own witness, on the last input.
SpellsOn(commit) == SpellsWith(commit, "none")

\* Spell hexes the signer may be handed: as the prover built them, or with
\* the other inputs signed by the wallet.
SpellHexes(commit) == SpellsOn(commit) \cup SpellsWith(commit, "user")

InitSign ==
  /\ BroadcastIdle
  /\ SelectIdle
  /\ KeysIdle
  /\ FeesIdle
  /\ StoreIdle
  /\ FlowIdle
  /\ CastIdle
  /\ ScanIdle
  /\ \E c \in UnsignedCommits :
       signArgs \in [commitTx : {c}, spellTx : SpellHexes(c), miningTx : ChainTxs]
  /\ signOut = NoSignOut

\* signCommitTx(commitTx, miningTx, seedPhrase) returns { signedHex, txid }.
ApplySignCommitTx ==
  /\ signOut.by = "none"
  /\ LET r == signCommitTx(signArgs.commitTx, signArgs.miningTx) IN
       signOut' = [by |-> "signCommitTx", ok |-> r.ok, error |-> r.error,
                   signedCommitTx |-> r.tx, signedSpellTx |-> NoTx,
                   commitTxid |-> TxId(r.tx).id, spellTxid |-> NoId]
  /\ UNCHANGED <<broadcastVars, flowVars, castVars, selectVars, keyVars, feeVars, storeVars, scanVars, signArgs>>

\* signProverTransactions(commitTx, spellTx, miningTx, seedPhrase).
ApplySignProverTransactions ==
  /\ signOut.by = "none"
  /\ LET r == signProverTransactions(signArgs.commitTx, signArgs.spellTx,
                                     signArgs.miningTx) IN
       signOut' = [by |-> "signProverTransactions", ok |-> r.ok, error |-> r.error,
                   signedCommitTx |-> r.signedCommitTx,
                   signedSpellTx |-> r.signedSpellTx,
                   commitTxid |-> r.commitTxid, spellTxid |-> r.spellTxid]
  /\ UNCHANGED <<broadcastVars, flowVars, castVars, selectVars, keyVars, feeVars, storeVars, scanVars, signArgs>>

NextSign ==
  \/ ApplySignCommitTx
  \/ ApplySignProverTransactions

SpecSign == InitSign /\ [][NextSign]_vars

\* ---------------------------------------------------------------------------
\* Specification of UTXO scanning
\* ---------------------------------------------------------------------------
KeyData(type, n) == [i \in 1..n |-> [type |-> type, index |-> i - 1]]

\* A service built with its options, a wallet with up to NumScanAddresses
\* recipient addresses and NumScanAddresses change addresses, and a scan
\* budget.
InitScan ==
  /\ BroadcastIdle
  /\ SelectIdle
  /\ KeysIdle
  /\ FeesIdle
  /\ StoreIdle
  /\ FlowIdle
  /\ CastIdle
  /\ SignIdle
  /\ scanCfg \in [includeProtected : BOOLEAN,
                   minValue : {546, DEFAULT_MIN_VALUE},
                   maxAddresses : 0..MaxScanBudget,
                   recipient : {KeyData("recipient", n) : n \in 0..NumScanAddresses},
                   change : {KeyData("change", NumScanAddresses)}]
  /\ scan = NoScan

ScanFrame == UNCHANGED <<broadcastVars, flowVars, castVars, selectVars, keyVars, feeVars, storeVars, signVars, scanCfg>>

\* scanAddress(address) on the first recipient or change address.
CallScanAddress(outcome) ==
  /\ scan.pc = "idle"
  /\ scan' = [scan EXCEPT
       !.by = "scanAddress",
       !.pc = IF outcome = FetchFailure THEN "threw" ELSE "returned",
       !.log = <<"fetch">>,
       !.fetched = outcome.utxos,
       !.result.utxos = IF outcome = FetchFailure THEN <<>>
                        ELSE scanAddress(outcome.utxos, scanCfg)]
  /\ ScanFrame

\* scanAddressWithKeys(keyData, type) on the first change address.
CallScanAddressWithKeys(outcome) ==
  /\ scan.pc = "idle"
  /\ LET r == scanAddressWithKeys(outcome.utxos, scanCfg.change[1], scanCfg) IN
       scan' = [scan EXCEPT
         !.by = "scanAddressWithKeys",
         !.pc = IF outcome = FetchFailure THEN "threw" ELSE "returned",
         !.log = <<"fetch">>,
         !.fetched = outcome.utxos,
         !.result.utxos = IF outcome = FetchFailure THEN <<>> ELSE r.utxos,
         !.result.protectedCount =
            IF outcome = FetchFailure THEN 0 ELSE r.protectedCount]
  /\ ScanFrame

AfterAddress(queue, next) ==
  IF next > Len(queue) THEN "finishing" ELSE "fetching"

\* scanAllAddresses up to its first fetch: the two slices.
ScanAllAddressesBegin ==
  /\ scan.pc = "idle"
  /\ LET recipientAddresses == Slice(scanCfg.recipient, scanCfg.maxAddresses)
         changeAddresses ==
           Slice(scanCfg.change,
                 IF scanCfg.maxAddresses - Len(recipientAddresses) > 0
                   THEN scanCfg.maxAddresses - Len(recipientAddresses) ELSE 0)
         queue == recipientAddresses \o changeAddresses IN
       scan' = [scan EXCEPT !.by = "scanAllAddresses", !.queue = queue,
                            !.pc = AfterAddress(queue, 1)]
  /\ ScanFrame

\* The fetch of the address in turn settles: on success the UTXOs are added
\* and the delay starts, on failure an error is recorded and the loop goes
\* on to the next address.
FetchAddressUtxosSettles(outcome) ==
  /\ scan.pc = "fetching"
  /\ LET keyData == scan.queue[scan.next] IN
       IF outcome = FetchFailure
         THEN scan' = [scan EXCEPT
                !.log = Append(@, "fetch"),
                !.result.errors =
                   Append(@, [address |-> keyData, type |-> keyData.type,
                              error |-> "Failed to fetch UTXOs"]),
                !.next = @ + 1,
                !.pc = AfterAddress(scan.queue, scan.next + 1)]
         ELSE LET r == scanAddressWithKeys(outcome.utxos, keyData, scanCfg) IN
              scan' = [scan EXCEPT
                !.log = Append(@, "fetch"),
                !.fetched = @ \o outcome.utxos,
                !.result.utxos = @ \o r.utxos,
                !.result.protectedCount = @ + r.protectedCount,
                !.result.scannedAddresses = @ + 1,
                !.pc = "delaying"]
  /\ ScanFrame

\* await delay(REQUEST_DELAY_MS) resolves.
DelayElapses ==
  /\ scan.pc = "delaying"
  /\ scan' = [scan EXCEPT !.log = Append(@, "delay"),
                          !.next = @ + 1,
                          !.pc = AfterAddress(scan.queue, scan.next + 1)]
  /\ ScanFrame

\* After the loops: deduplication, total value, return.
ScanAllAddressesReturns ==
  /\ scan.pc = "finishing"
  /\ LET deduped == Dedupe(scan.result.utxos) IN
       scan' = [scan EXCEPT !.pc = "returned",
                            !.result.utxos = deduped,
                            !.result.totalValue = SumValues(deduped)]
  /\ ScanFrame

NextScan ==
  \/ \E outcome \in FetchOutcomes : CallScanAddress(outcome)
  \/ \E outcome \in FetchOutcomes : CallScanAddressWithKeys(outcome)
  \/ ScanAllAddressesBegin
  \/ \E outcome \in FetchOutcomes : FetchAddressUtxosSettles(outcome)
  \/ DelayElapses
  \/ ScanAllAddressesReturns

SpecScan == InitScan /\ [][NextScan]_vars

\* ---------------------------------------------------------------------------
\* Specification of the cast route
\* ---------------------------------------------------------------------------
InitCast ==
  /\ BroadcastIdle
  /\ SelectIdle
  /\ KeysIdle
  /\ FeesIdle
  /\ StoreIdle
  /\ FlowIdle
  /\ SignIdle
  /\ ScanIdle
  /\ castReq \in CastRequests
  /\ cast = NoCast

CastFrame ==
  UNCHANGED <<broadcastVars, flowVars, selectVars, keyVars, feeVars, storeVars, signVars, scanVars, castReq>>

\* POST up to the call of the prover: the request is validated.
CastPost ==
  /\ cast.pc = "idle"
  /\ cast' = IF ~castReq.spell
               THEN [cast EXCEPT !.pc = "responded",
                                 !.response = CastError(400, "Missing spell data")]
             ELSE IF ~castReq.fundingUtxo \/ ~castReq.fundingUtxoValue
                       \/ ~castReq.changeAddress
               THEN [cast EXCEPT !.pc = "responded",
                       !.response = CastError(400,
                         "Missing required fields: fundingUtxo, fundingUtxoValue, changeAddress")]
               ELSE [cast EXCEPT !.pc = "proving"]
  /\ CastFrame

\* The prover answers; steps 2 and 3 up to the first broadcast.
ProverResponds(resp) ==
  /\ cast.pc = "proving"
  /\ LET commitTxHex == TxAt(resp.txs, 1)
         spellTxHex == OrElse(TxAt(resp.txs, 2), TxAt(resp.txs, 1))
         finalCommitTx == OrElse(castReq.signedCommitTx, commitTxHex)
         finalSpellTx == OrElse(castReq.signedSpellTx, spellTxHex)
         isCommitSigned == castReq.signedCommitTx # ""
         isSpellSigned == castReq.signedSpellTx # ""
         answer == [NoCastResponse EXCEPT !.status = 200,
                      !.commit_tx = commitTxHex, !.spell_tx = spellTxHex]
     IN
       IF resp.kind = "error"
         THEN cast' = [cast EXCEPT !.pc = "responded",
                                   !.response = CastError(resp.status, "Prover API error")]
       ELSE IF resp.kind = "timeout"
         THEN cast' = [cast EXCEPT !.pc = "responded",
                                   !.response = CastError(504, "Prover timeout")]
       ELSE IF spellTxHex = ""
         THEN cast' = [cast EXCEPT !.pc = "responded", !.txs = resp.txs,
                          !.response = CastError(500, "Prover returned no transactions")]
       ELSE IF ~castReq.broadcast
         THEN cast' = [cast EXCEPT !.pc = "responded", !.txs = resp.txs,
                          !.finalCommitTx = finalCommitTx, !.finalSpellTx = finalSpellTx,
                          !.response = [answer EXCEPT !.needsSignature = TRUE]]
       ELSE IF ~isCommitSigned /\ ~isSpellSigned
         THEN cast' = [cast EXCEPT !.pc = "responded", !.txs = resp.txs,
                          !.finalCommitTx = finalCommitTx, !.finalSpellTx = finalSpellTx,
                          !.response = [answer EXCEPT !.needsSignature = TRUE,
                                                      !.broadcast = FALSE]]
       ELSE IF finalCommitTx # "" /\ finalCommitTx # finalSpellTx
         THEN cast' = [cast EXCEPT !.pc = "broadcastingCommit", !.txs = resp.txs,
                          !.finalCommitTx = finalCommitTx, !.finalSpellTx = finalSpellTx,
                          !.sent = Append(@, finalCommitTx)]
         ELSE cast' = [cast EXCEPT !.pc = "broadcastingSpell", !.txs = resp.txs,
                          !.finalCommitTx = finalCommitTx, !.finalSpellTx = finalSpellTx,
                          !.sent = Append(@, finalSpellTx)]
  /\ CastFrame

\* broadcastTx(finalCommitTx) settles; on success the spell is posted.
CastCommitSettles(ok) ==
  /\ cast.pc = "broadcastingCommit"
  /\ cast' = IF ok
               THEN [cast EXCEPT !.pc = "broadcastingSpell",
                                 !.commitTxid = CastTxid(cast.finalCommitTx),
                                 !.sent = Append(@, cast.finalSpellTx)]
               ELSE [cast EXCEPT !.pc = "responded",
                                 !.response = CastError(500, "Cast failed")]
  /\ CastFrame

\* broadcastTx(finalSpellTx) settles and the route answers.
CastSpellSettles(ok) ==
  /\ cast.pc = "broadcastingSpell"
  /\ cast' = IF ok
               THEN [cast EXCEPT !.pc = "responded",
                      !.response = [NoCastResponse EXCEPT !.status = 200,
                         !.commit_tx = TxAt(cast.txs, 1),
                         !.spell_tx = OrElse(TxAt(cast.txs, 2), TxAt(cast.txs, 1)),
                         !.commitTxid = cast.commitTxid,
                         !.spellTxid = CastTxid(cast.finalSpellTx),
                         !.broadcast = TRUE, !.needsSignature = FALSE]]
               ELSE [cast EXCEPT !.pc = "responded",
                                 !.response = CastError(500, "Cast failed")]
  /\ CastFrame

NextCast ==
  \/ CastPost
  \/ \E resp \in ProverResponses : ProverResponds(resp)
  \/ \E ok \in BOOLEAN : CastCommitSettles(ok)
  \/ \E ok \in BOOLEAN : CastSpellSettles(ok)

SpecCast == InitCast /\ [][NextCast]_vars

\* ---------------------------------------------------------------------------
\* Specification of the market operations
\* ---------------------------------------------------------------------------
\* A connected wallet or one whose mnemonic is gone, two known markets and a
\* position. The funding UTXO and the prover pair are those this run will
\* see: a commit_tx whose one input is the funding UTXO and a spell_tx that
\* spends its output, alone or with the funding UTXO. mnemonic is the
\* mnemonic the operations in flight were rendered with.
InitFlow ==
  /\ pc = "idle"
  /\ fundingUtxo = [txid |-> WitnessFreeId(ChainTx(1)), vout |-> 0]
  /\ \E c \in ProverCommits :
       /\ Len(c.ins) = 1
       /\ FundingUtxoId(fundingUtxo) = Outpoint(c.ins[1].txid, c.ins[1].index)
       /\ proverTxs \in {<<c, sp>> : sp \in {t \in SpellsOn(c) :
                           \A k \in DOMAIN t.ins :
                             t.ins[k].txid \in {fundingUtxo.txid, WitnessFreeId(c)}}}
  /\ mnemonic \in {"valid", "none"}
  /\ caller = "none"
  /\ tx1Hex = NoTx
  /\ tx2Hex = NoTx
  /\ fundingArg = Undefined
  /\ commitTx = NoTx
  /\ spellTx = NoTx
  /\ broadcastedCommitTxid = NoId
  /\ netLog = <<>>
  /\ signedCommit = NoTx
  /\ signedSpell = NoTx
  /\ result = NoResult
  /\ SelectIdle
  /\ KeysIdle
  /\ FeesIdle
  /\ walletStore = Connected(IF mnemonic = "valid" THEN ImportedMnemonic ELSE NoMnemonic)
  /\ localStorage = SetItem(walletStore)
  /\ SignIdle
  /\ ScanIdle
  /\ CastIdle
  /\ flow = NoFlow
  /\ app = [NoApp EXCEPT !.markets = InitialMarkets, !.positions = InitialPositions,
                         !.transactions = <<OldTransaction>>]
  /\ running = 0
  /\ storeCalls = 0
  /\ NEXT_PUBLIC_APP_VK \in {"", "vk"}

NotFlow == <<selectVars, keyVars, feeVars, signVars, scanVars, castVars, NEXT_PUBLIC_APP_VK>>

\* What the running call of signAndBroadcast holds.
Frame ==
  [pc |-> pc, caller |-> caller, tx1Hex |-> tx1Hex, tx2Hex |-> tx2Hex,
   fundingArg |-> fundingArg, commitTx |-> commitTx, spellTx |-> spellTx,
   broadcastedCommitTxid |-> broadcastedCommitTxid, netLog |-> netLog,
   signedCommit |-> signedCommit, signedSpell |-> signedSpell, result |-> result]

\* signAndBroadcast has settled in the running call and what follows its
\* await (the rest of the try block, or catch and finally) runs before any
\* other response or call is handled.
Settling ==
  /\ running \in Calls
  /\ flow[running].stage = "signing"
  /\ pc \in {"done", "failed"}

FlowEntered(op, marketId) == [NoCall EXCEPT !.op = op, !.marketId = marketId]

\* A call that has ended: its arguments and locals are gone.
Ended(f, thrown) == [NoCall EXCEPT !.op = f.op, !.stage = "ended", !.thrown = thrown]

\* Call i ends by throwing from inside its try block, the hook and the
\* stores being a.
Fails(i, f, a, message, data) ==
  /\ flow' = [flow EXCEPT ![i] = Ended(f, TRUE)]
  /\ app' = CatchAndFinally(a, CatchMessage(f.op, message, data))

\* createMarket, mintShares, redeemShares or trade up to the UTXO fetch.
FlowBegin(i, op, marketId) ==
  /\ ~Settling
  /\ flow[i].stage = "idle"
  /\ \A j \in Calls : j < i => flow[j].stage # "idle"
  /\ <<op, marketId>> \in Operations
  /\ LET market == FindMarket(app.markets, marketId)
         begun == [app EXCEPT !.isLoading = TRUE, !.error = ""] IN
       IF walletStore.wallet = NoWallet \/ walletStore.mnemonic = NoMnemonic
         THEN /\ flow' = [flow EXCEPT ![i] =
                            Ended(FlowEntered(op, marketId), TRUE)]
              /\ app' = app
       ELSE IF op # "create" /\ ~market.found
         THEN Fails(i, FlowEntered(op, marketId), begun, "Market not found", NoData)
       ELSE IF op = "redeem" /\ market.status # "Resolved"
         THEN Fails(i, FlowEntered(op, marketId), begun, "Market not yet resolved", NoData)
         ELSE /\ flow' = [flow EXCEPT ![i] =
                            [FlowEntered(op, marketId) EXCEPT !.stage = "fetchingUtxos"]]
              /\ app' = [begun EXCEPT !.isProcessing = TRUE]
  /\ UNCHANGED <<broadcastVars, running, storeCalls, storeVars, NotFlow>>

\* Answers to the request of fetchUTXOs: rejected, a status that is not OK
\* with its text, or a list.
FetchUtxoAnswers ==
  {[kind |-> "rejected", statusText |-> "", utxos |-> <<>>],
   [kind |-> "notOk", statusText |-> "Not Found", utxos |-> <<>>]}
  \cup {[kind |-> "ok", statusText |-> "OK", utxos |-> l] : l \in WalletUtxoLists}

\* fetchUTXOs answers call i; the funding UTXO is selected and its
\* transaction is asked for. fundingUtxo is the UTXO this run selects.
FlowUtxosRespond(i, answer) ==
  /\ ~Settling
  /\ flow[i].stage = "fetchingUtxos"
  /\ LET sel == selectBestUtxo(answer.utxos) IN
       /\ (answer.kind = "ok" /\ sel.ok) => sel.utxo = Defined(fundingUtxo)
       /\ IF answer.kind = "rejected"
            THEN Fails(i, flow[i], app, "fetch failed", NoData)
          ELSE IF answer.kind = "notOk"
            THEN Fails(i, flow[i], app,
                       "Failed to fetch UTXOs: " \o answer.statusText, NoData)
          ELSE IF ~sel.ok THEN Fails(i, flow[i], app, sel.error, NoData)
          ELSE /\ flow' = [flow EXCEPT ![i].stage = "fetchingPrevTxs",
                                       ![i].fundingUtxo = sel.utxo]
               /\ app' = app
  /\ UNCHANGED <<broadcastVars, running, storeCalls, storeVars, NotFlow>>

\* fetchPrevTxs returns to call i (it swallows the errors of its fetches).
\* createMarket asks the server for APP_VK when the build has none; otherwise
\* the spell is built and the prover is asked.
FlowPrevTxsRespond(i) ==
  /\ ~Settling
  /\ flow[i].stage = "fetchingPrevTxs"
  /\ flow' = [flow EXCEPT ![i].stage =
                IF flow[i].op = "create" /\ NEXT_PUBLIC_APP_VK = ""
                  THEN "fetchingConfig" ELSE "proving"]
  /\ app' = [app EXCEPT !.isProcessing = TRUE]
  /\ UNCHANGED <<broadcastVars, running, storeCalls, storeVars, NotFlow>>

\* getConfig answers call i of createMarket; a failure is caught and appVk
\* stays empty. The spell is built and the prover is asked.
FlowConfigResponds(i, ok) ==
  /\ ~Settling
  /\ flow[i].stage = "fetchingConfig"
  /\ flow' = [flow EXCEPT ![i].stage = "proving"]
  /\ app' = [app EXCEPT !.isProcessing = TRUE]
  /\ UNCHANGED <<broadcastVars, running, storeCalls, storeVars, NotFlow>>

\* The broadcast variables turn to call i: what they held is kept with the
\* call that was running, if it has not ended.
Resume(i) ==
  /\ ~Settling
  /\ running # i
  /\ flow[i].stage \in {"proving", "signing"}
  /\ flow' = IF running \in Calls /\ flow[running].stage \in {"proving", "signing"}
               THEN [flow EXCEPT ![running].frame = Frame]
               ELSE flow
  /\ running' = i
  /\ pc' = flow[i].frame.pc
  /\ caller' = flow[i].frame.caller
  /\ tx1Hex' = flow[i].frame.tx1Hex
  /\ tx2Hex' = flow[i].frame.tx2Hex
  /\ fundingArg' = flow[i].frame.fundingArg
  /\ commitTx' = flow[i].frame.commitTx
  /\ spellTx' = flow[i].frame.spellTx
  /\ broadcastedCommitTxid' = flow[i].frame.broadcastedCommitTxid
  /\ netLog' = flow[i].frame.netLog
  /\ signedCommit' = flow[i].frame.signedCommit
  /\ signedSpell' = flow[i].frame.signedSpell
  /\ result' = flow[i].frame.result
  /\ UNCHANGED <<inputs, app, storeCalls, storeVars, NotFlow>>

\* castSpell answers call i; with a pair, signAndBroadcast(commit_tx,
\* spell_tx, fundingUtxo) is called and runs up to its request for the
\* mining tx.
FlowProverResponds(i, answer) ==
  /\ ~Settling
  /\ flow[i].stage = "proving"
  /\ IF ~castSpell(answer).ok
       THEN /\ Fails(i, flow[i], app, castSpell(answer).message, castSpell(answer).data)
            /\ UNCHANGED <<broadcastVars, running>>
     ELSE IF ~answer.success \/ ~answer.txs
       THEN /\ Fails(i, flow[i], app,
                     OrElse(answer.error,
                            IF flow[i].op = "create"
                              THEN "Prover failed to return transactions"
                              ELSE "Prover failed"),
                     NoData)
            /\ UNCHANGED <<broadcastVars, running>>
       ELSE /\ running = i
            /\ SignAndBroadcastEnter
            /\ flow' = [flow EXCEPT ![i].stage = "signing"]
            /\ app' = IF mnemonic = "none" THEN app
                                           ELSE [app EXCEPT !.isProcessing = TRUE]
            /\ UNCHANGED running
  /\ UNCHANGED <<storeCalls, storeVars, NotFlow>>

\* fetchTxHex answers the running call of signAndBroadcast.
FlowMiningTxResponse(resp) ==
  /\ running \in Calls
  /\ flow[running].stage = "signing"
  /\ MiningTxResponds(resp)
  /\ app' = IF resp = "found" THEN [app EXCEPT !.isProcessing = TRUE] ELSE app
  /\ UNCHANGED <<flow, running, storeCalls, storeVars, NotFlow>>

\* signProverTransactions settles in the running call of signAndBroadcast.
FlowSignProverTransactionsSettle ==
  /\ running \in Calls
  /\ flow[running].stage = "signing"
  /\ SignProverTransactionsSettles
  /\ UNCHANGED <<flow, app, running, storeCalls, storeVars, NotFlow>>

\* The running call of signAndBroadcast resumes after the signing.
FlowSignAndBroadcastContinue ==
  /\ running \in Calls
  /\ flow[running].stage = "signing"
  /\ SignAndBroadcastContinues
  /\ app' = IF result.status = "error" THEN app
                                       ELSE [app EXCEPT !.isProcessing = TRUE]
  /\ UNCHANGED <<flow, running, storeCalls, storeVars, NotFlow>>

\* signAndBroadcast has settled: the stores are updated, or the error is
\* recorded and thrown on; the flags are cleared either way.
FlowSettles ==
  /\ Settling
  /\ IF result.status = "ok"
       THEN /\ flow' = [flow EXCEPT ![running] = Ended(@, FALSE)]
            /\ app' = Completed(app, flow[running].op, flow[running].marketId,
                                result.spellTxid)
       ELSE /\ flow' = [flow EXCEPT ![running] = Ended(@, TRUE)]
            /\ app' = CatchAndFinally(app, CatchMessage(flow[running].op,
                                                        MessageOf(result.error), NoData))
  /\ UNCHANGED <<broadcastVars, running, storeCalls, storeVars, NotFlow>>

\* The hook's clearError.
ClearError ==
  /\ ~Settling
  /\ app' = [app EXCEPT !.error = ""]
  /\ UNCHANGED <<broadcastVars, flow, running, storeCalls, storeVars, NotFlow>>

\* A call is made to a store from outside the operations.
StoreCall ==
  /\ ~Settling
  /\ storeCalls < MaxStoreCalls
  /\ storeCalls' = storeCalls + 1
  /\ UNCHANGED <<broadcastVars, flow, running, storeVars, NotFlow>>

\* useMarketsStore
SetMarkets(markets) ==
  /\ StoreCall
  /\ app' = [app EXCEPT !.markets = markets]

UpdateMarket(id, updates) ==
  /\ StoreCall
  /\ app' = [app EXCEPT !.markets =
               [i \in DOMAIN @ |-> IF @[i].id = id THEN Spread(@[i], updates) ELSE @[i]]]

RemoveMarket(id) ==
  /\ StoreCall
  /\ LET Other(m) == m.id # id IN
       app' = [app EXCEPT !.markets = SelectSeq(@, Other)]

ClearMarkets ==
  /\ StoreCall
  /\ app' = [app EXCEPT !.markets = <<>>]

\* usePortfolioStore
SetPositions(positions) ==
  /\ StoreCall
  /\ app' = [app EXCEPT !.positions = positions]

RemovePosition(marketId) ==
  /\ StoreCall
  /\ LET Other(p) == p.marketId # marketId IN
       app' = [app EXCEPT !.positions = SelectSeq(@, Other)]

UpdateTransaction(txid, updates) ==
  /\ StoreCall
  /\ app' = [app EXCEPT !.transactions =
               [i \in DOMAIN @ |->
                  IF @[i].txid = txid THEN Spread(@[i], updates) ELSE @[i]]]

UpdateTransactionStatus(txid, status) ==
  /\ StoreCall
  /\ app' = [app EXCEPT !.transactions =
               [i \in DOMAIN @ |->
                  IF @[i].txid = txid THEN Spread(@[i], [status |-> status])
                                      ELSE @[i]]]

ClearPortfolio ==
  /\ StoreCall
  /\ app' = [app EXCEPT !.positions = <<>>, !.transactions = <<>>]

\* resetAllStores: clearWallet, clearMarkets, clearPortfolio and clearToasts
\* in one step.
ResetAllStores ==
  /\ ~Settling
  /\ storeCalls < MaxStoreCalls
  /\ storeCalls' = storeCalls + 1
  /\ walletStore' = clearWallet(walletStore)
  /\ localStorage' = SetItem(clearWallet(walletStore))
  /\ app' = [app EXCEPT !.markets = <<>>, !.positions = <<>>, !.transactions = <<>>]
  /\ UNCHANGED <<broadcastVars, flow, running, NotFlow>>

\* signAndBroadcast never gets a submission out (it hands broadcastTxPackage
\* no funding UTXO), so no response of the network is awaited here.
NextFlow ==
  \/ \E i \in Calls, op \in FlowOps, marketId \in MarketIds : FlowBegin(i, op, marketId)
  \/ \E i \in Calls, answer \in FetchUtxoAnswers : FlowUtxosRespond(i, answer)
  \/ \E i \in Calls : FlowPrevTxsRespond(i)
  \/ \E i \in Calls : Resume(i)
  \/ \E i \in Calls, ok \in BOOLEAN : FlowConfigResponds(i, ok)
  \/ \E i \in Calls, answer \in CastAnswers : FlowProverResponds(i, answer)
  \/ \E resp \in TxHexResponses : FlowMiningTxResponse(resp)
  \/ FlowSignProverTransactionsSettle
  \/ FlowSignAndBroadcastContinue
  \/ FlowSettles
  \/ ClearError
  \/ \E markets \in MarketLists : SetMarkets(markets)
  \/ \E id \in StoreMarketIds, updates \in MarketUpdates : UpdateMarket(id, updates)
  \/ \E id \in StoreMarketIds : RemoveMarket(id)
  \/ ClearMarkets
  \/ \E positions \in PositionLists : SetPositions(positions)
  \/ \E marketId \in StoreMarketIds : RemovePosition(marketId)
  \/ \E updates \in TransactionUpdates : UpdateTransaction(OldTransaction.txid, updates)
  \/ \E status \in TransactionStatuses :
       UpdateTransactionStatus(OldTransaction.txid, status)
  \/ ClearPortfolio
  \/ ResetAllStores

SpecFlow == InitFlow /\ [][NextFlow]_vars

\* ---------------------------------------------------------------------------
\* Properties
\* ---------------------------------------------------------------------------
\* tx has an input whose txid is the id of other.
RefersTo(tx, other) ==
  \E i \in 1..Len(tx.ins) : tx.ins[i].txid = WitnessFreeId(other)

\* tx has the outpoint among its inputs.
HasInput(tx, op) ==
  \E i \in 1..Len(tx.ins) : tx.ins[i].txid = op.txid /\ tx.ins[i].index = op.index

\* broadcastTxPackage has been entered with a funding UTXO.
Entered == tx1Hex # NoTx /\ fundingArg.defined

\* The funding outpoint broadcastTxPackage was given.
F == [txid |-> fundingArg.utxo.txid, index |-> fundingArg.utxo.vout]

\* Classification succeeded.
Classified == commitTx # NoTx

\* Both transactions handed to broadcastTxPackage are finalized.
BothFinal == IsFinal(tx1Hex) /\ IsFinal(tx2Hex)

\* A pair with a transaction that is not finalized is not classified: the
\* operation fails with the error of the id getter and submits nothing.
NotFinalizedFails ==
  (Entered /\ ~BothFinal) =>
    /\ pc = "failed"
    /\ result = Failure(NotFinalized)
    /\ ~Classified
    /\ netLog = <<>>

\* C1: no network submission is issued unless the transaction classified as
\* spell has an input whose txid is the id of the transaction classified as
\* commit; when neither transaction spends an output of the other the
\* operation fails with no submission at all.
C1_NoSubmissionUnlessSpellSpendsCommit ==
  /\ netLog # <<>> =>
       /\ RefersTo(spellTx, commitTx)
       /\ {commitTx, spellTx} = {tx1Hex, tx2Hex}
       /\ \A i \in DOMAIN netLog :
            \A j \in DOMAIN netLog[i].txs : netLog[i].txs[j] \in {commitTx, spellTx}
  /\ (Entered /\ ~RefersTo(tx1Hex, tx2Hex) /\ ~RefersTo(tx2Hex, tx1Hex)) =>
       /\ pc = "failed"
       /\ result.status = "error"
       /\ netLog = <<>>

\* A finalized commit and the finalized spell that spends it have both
\* been accepted, one after the other.
C1_Witness ==
  /\ BothFinal
  /\ pc = "done"
  /\ Len(netLog) = 2
  /\ RefersTo(spellTx, commitTx)

\* C2: when the spell also spends the funding UTXO, commit and spell are
\* submitted together in one package request and no single-transaction
\* broadcast is issued; single-transaction broadcasts are issued only when the
\* spell does not spend the funding UTXO.
C2_TruePackageGoesThroughPackageRelay ==
  Classified =>
    /\ HasInput(spellTx, F) =>
         /\ Len(netLog) = 1
         /\ netLog[1].kind = "package"
         /\ netLog[1].txs = <<commitTx, spellTx>>
    /\ ~HasInput(spellTx, F) =>
         /\ netLog # <<>>
         /\ \A i \in DOMAIN netLog : netLog[i].kind = "tx"

\* A finalized pair whose spell spends the funding UTXO too has been
\* accepted as a package.
C2_Witness ==
  /\ BothFinal
  /\ pc = "done"
  /\ HasInput(spellTx, F)
  /\ HasInput(commitTx, F)
  /\ netLog[1].kind = "package"
  /\ netLog[1].outcome = "ok"

\* C3: a failed package submission ends the operation in failure with the
\* error of the submission (the relay's error text when it gave one), and no
\* single-transaction broadcast follows.
C3_PackageFailureIsFinal ==
  (netLog # <<>> /\ netLog[1].kind = "package" /\ netLog[1].outcome = "failed") =>
    /\ pc = "failed"
    /\ result.status = "error"
    /\ result.error.message # ""
    /\ netLog[1].reply # "" => result.error.message = netLog[1].reply
    /\ Len(netLog) = 1

\* The package request for a finalized pair was refused for want of a relay.
C3_Witness ==
  /\ BothFinal
  /\ pc = "failed"
  /\ netLog # <<>>
  /\ netLog[1].kind = "package"
  /\ netLog[1].outcome = "failed"
  /\ result.error.message = RelayRequiredMsg

\* C4: on the sequential path the spell is submitted only after the commit
\* submission returned successfully; after a failed commit submission the
\* spell is never submitted.
C4_SpellOnlyAfterCommitAccepted ==
  /\ \A i \in DOMAIN netLog :
       (netLog[i].kind = "tx" /\ netLog[i].txs = <<spellTx>>) =>
         /\ i = 2
         /\ netLog[1].kind = "tx"
         /\ netLog[1].txs = <<commitTx>>
         /\ netLog[1].outcome = "ok"
  /\ (netLog # <<>> /\ netLog[1].kind = "tx" /\ netLog[1].outcome = "failed") =>
       /\ pc = "failed"
       /\ Len(netLog) = 1

\* The spell of a finalized pair was submitted after its commit was accepted.
C4_Witness ==
  /\ BothFinal
  /\ Len(netLog) = 2
  /\ netLog[2].txs = <<spellTx>>
  /\ netLog[1].txs = <<commitTx>>
  /\ netLog[1].outcome = "ok"

\* C5: when the commit broadcast succeeded and the spell broadcast failed,
\* the failure delivered to the caller carries the id of the broadcast commit
\* transaction and the spell error.
C5_SpellFailureCarriesCommitId ==
  (/\ Len(netLog) = 2
   /\ netLog[1].kind = "tx" /\ netLog[1].outcome = "ok"
   /\ netLog[2].kind = "tx" /\ netLog[2].outcome = "failed") =>
    /\ result.status = "error"
    /\ result.error.detail = netLog[2].reply
    /\ \/ result.commitTxid = WitnessFreeId(commitTx)
       \/ WitnessFreeId(commitTx) \in result.error.refs

\* The number of times tx has been handed to the network.
TimesSubmitted(tx) ==
  Cardinality({p \in (DOMAIN netLog) \X (1..2) :
                 p[2] \in DOMAIN netLog[p[1]].txs /\ netLog[p[1]].txs[p[2]] = tx})

\* C20: within one broadcastTxPackage invocation each of the two transactions
\* is submitted to the network at most once, and after a failed submission no
\* further submission is issued: the failed submission is the last one and the
\* operation has failed.
C20_SubmittedAtMostOnceNoRetry ==
  /\ \A tx \in {tx1Hex, tx2Hex} : tx # NoTx => TimesSubmitted(tx) <= 1
  /\ \A i \in DOMAIN netLog :
       netLog[i].outcome = "failed" => (i = Len(netLog) /\ pc = "failed")

\* The commit was accepted and the spell was refused: nothing else was sent.
C20_Witness ==
  /\ BothFinal
  /\ Len(netLog) = 2
  /\ netLog[1].outcome = "ok"
  /\ netLog[2].outcome = "failed"
  /\ TimesSubmitted(commitTx) = 1
  /\ TimesSubmitted(spellTx) = 1
  /\ pc = "failed"

\* C6: classification does not depend on the array order: the outcome for
\* [a, b] is the outcome for [b, a]; when exactly one of the two spends the
\* funding UTXO and classification succeeds, that one is the commit.
C6_ClassificationOrderIndependent ==
  Entered =>
    LET swapped == classifyProverTxs(<<tx2Hex, tx1Hex>>, F) IN
      /\ Classified <=> swapped.ok
      /\ swapped.ok => (swapped.commitTx = commitTx /\ swapped.spellTx = spellTx)
      /\ (Classified /\ HasInput(tx1Hex, F) /\ ~HasInput(tx2Hex, F)) =>
           (commitTx = tx1Hex /\ spellTx = tx2Hex)
      /\ (Classified /\ HasInput(tx2Hex, F) /\ ~HasInput(tx1Hex, F)) =>
           (commitTx = tx2Hex /\ spellTx = tx1Hex)

\* A finalized pair handed over spell first has been classified.
C6_Witness ==
  /\ Entered
  /\ BothFinal
  /\ Classified
  /\ HasInput(tx2Hex, F)
  /\ ~HasInput(tx1Hex, F)
  /\ commitTx = tx2Hex
  /\ spellTx = tx1Hex

\* The statement of C7 for every pair of transactions, finalized or not:
\* when both spend the funding UTXO, the one referenced by the other is the
\* commit and the referencing one the spell; when neither references the
\* other, classification fails as an ambiguous pair and nothing is submitted.
C7_EveryPairBothSpendFunding ==
  (Entered /\ HasInput(tx1Hex, F) /\ HasInput(tx2Hex, F)) =>
    /\ RefersTo(tx2Hex, tx1Hex) => (commitTx = tx1Hex /\ spellTx = tx2Hex)
    /\ RefersTo(tx1Hex, tx2Hex) => (commitTx = tx2Hex /\ spellTx = tx1Hex)
    /\ (~RefersTo(tx2Hex, tx1Hex) /\ ~RefersTo(tx1Hex, tx2Hex)) =>
         /\ pc = "failed"
         /\ result.error.message = "Both spend funding, but neither spends the other"
         /\ netLog = <<>>

\* C7: when both transactions are finalized and both spend the funding
\* UTXO, the one referenced by the other is the commit and the referencing
\* one the spell; when neither references the other, classification fails
\* as an ambiguous pair and nothing is submitted. When a transaction of the
\* pair is not finalized the operation fails with "Transaction is not
\* finalized" before it classifies, and nothing is submitted either.
C7_BothSpendFunding ==
  /\ (Entered /\ BothFinal /\ HasInput(tx1Hex, F) /\ HasInput(tx2Hex, F)) =>
       /\ RefersTo(tx2Hex, tx1Hex) => (commitTx = tx1Hex /\ spellTx = tx2Hex)
       /\ RefersTo(tx1Hex, tx2Hex) => (commitTx = tx2Hex /\ spellTx = tx1Hex)
       /\ (~RefersTo(tx2Hex, tx1Hex) /\ ~RefersTo(tx1Hex, tx2Hex)) =>
            /\ pc = "failed"
            /\ result.error.message = "Both spend funding, but neither spends the other"
            /\ netLog = <<>>
  /\ (HasInput(tx1Hex, F) /\ HasInput(tx2Hex, F)) => NotFinalizedFails

\* A finalized spell handed over first and the finalized commit it spends,
\* both on the funding UTXO, have been told apart.
C7_Witness ==
  /\ Entered
  /\ BothFinal
  /\ HasInput(tx1Hex, F)
  /\ HasInput(tx2Hex, F)
  /\ RefersTo(tx1Hex, tx2Hex)
  /\ commitTx = tx2Hex
  /\ spellTx = tx1Hex

\* The statement of C8 for every pair of transactions, finalized or not:
\* when neither transaction has the funding UTXO among its inputs,
\* classification fails because the funding UTXO is not spent and no network
\* submission is made.
C8_EveryPairFundingNotSpent ==
  (Entered /\ ~HasInput(tx1Hex, F) /\ ~HasInput(tx2Hex, F)) =>
    /\ pc = "failed"
    /\ result.status = "error"
    /\ result.error.message =
         "Cannot determine commit tx: neither transaction spends funding UTXO"
    /\ netLog = <<>>

\* C8: when both transactions are finalized and neither has the funding UTXO
\* among its inputs, classification fails because the funding UTXO is not
\* spent and no network submission is made. When a transaction of the pair
\* is not finalized the operation fails with "Transaction is not finalized"
\* before it classifies, and no network submission is made either.
C8_FundingNotSpent ==
  /\ (Entered /\ BothFinal /\ ~HasInput(tx1Hex, F) /\ ~HasInput(tx2Hex, F)) =>
       /\ pc = "failed"
       /\ result.status = "error"
       /\ result.error.message =
            "Cannot determine commit tx: neither transaction spends funding UTXO"
       /\ netLog = <<>>
  /\ (~HasInput(tx1Hex, F) /\ ~HasInput(tx2Hex, F)) => NotFinalizedFails

\* A finalized commit on another UTXO and the finalized spell that spends it
\* have been refused.
C8_Witness ==
  /\ Entered
  /\ BothFinal
  /\ result.error.message =
       "Cannot determine commit tx: neither transaction spends funding UTXO"
  /\ ~HasInput(tx1Hex, F)
  /\ ~HasInput(tx2Hex, F)
  /\ RefersTo(tx2Hex, tx1Hex)
  /\ pc = "failed"

\* C9: the transaction returned by signSpellTx has every input of the
\* unsigned spell transaction at the same position, with the same witness
\* except for a signature added to the input that spends the commit output;
\* the last input keeps the prover's witness.
C9_SignSpellTxKeepsInputs ==
  pc = "spellSigned" =>
    LET u == proverTxs[2] IN
      /\ Len(signedSpell.ins) = Len(u.ins)
      /\ \A i \in 1..Len(u.ins) :
           /\ i \in DOMAIN signedSpell.ins
           /\ StripWitness(signedSpell.ins[i]) = StripWitness(u.ins[i])
           /\ \/ signedSpell.ins[i].witness = u.ins[i].witness
              \/ /\ u.ins[i].witness = "none"
                 /\ u.ins[i].txid = WitnessFreeId(signedCommit)
                 /\ signedSpell.ins[i].witness = "user"
      /\ signedSpell.ins[Len(signedSpell.ins)].witness = u.ins[Len(u.ins)].witness

\* signAndBroadcast has got the mining tx, signProverTransactions has signed
\* the commit transaction and signAndBroadcast has resumed after it.
CommitSignedInFlow ==
  /\ caller = "signAndBroadcast"
  /\ pc \notin {"idle", "fetchingMiningTx", "signingProverTxs", "proverTxsSettled"}
  /\ mnemonic = "valid"
  /\ result.error.message \notin {"Failed to fetch tx", "Failed to fetch funding transaction"}
  /\ signCommitTx(proverTxs[1], ChainTxById(fundingUtxo.txid)).ok

\* C10: after signProverTransactions the spell transaction is handed to
\* broadcastTxPackage with all its inputs, and every input other than the
\* last carries a user signature.
C10_SpellInputsSignedBeforeBroadcast ==
  CommitSignedInFlow =>
    /\ tx2Hex # NoTx
    /\ Len(tx2Hex.ins) = Len(proverTxs[2].ins)
    /\ \A i \in 1..(Len(tx2Hex.ins) - 1) : tx2Hex.ins[i].witness = "user"


\* ---------------------------------------------------------------------------
\* Properties of the selection operations
\* ---------------------------------------------------------------------------
\* A selection operation has returned.
Selected == selection.by # "none"

RECURSIVE SumAt(_, _)
SumAt(list, S) ==
  IF S = {} THEN 0
  ELSE LET i == CHOOSE j \in S : TRUE
       IN  list[i].value + SumAt(list, S \ {i})

\* C11: a returned selection covers target + fee, its change is
\* sum - target - fee >= 0, and its fee is the fee estimator's fee for the
\* number of selected inputs and 2 outputs: ceil(ceil(vsize) * rate).
C11_SelectionFeeIsEstimatorFee ==
  (Selected /\ selection.out.found) =>
    LET sel == selection.out
        sum == SumValues(sel.selected)
    IN  /\ sum >= targetAmount + sel.fee
        /\ sel.change = sum - targetAmount - sel.fee
        /\ sel.change >= 0
        /\ sel.fee = calculateTaprootFee(Len(sel.selected), 2, feeRate)

\* C12: when selection returns null, no subset of the candidate UTXOs covers
\* the target plus the fee for a transaction with that many inputs.
C12_InsufficientMeansNoSubsetSuffices ==
  (Selected /\ ~selection.out.found) =>
    \A S \in SUBSET DOMAIN utxos :
      SumAt(utxos, S) < targetAmount + estimateFee(Cardinality(S), 2, feeRate)

\* C13: unless the caller opted in with includeProtected = true, a returned
\* selection contains no UTXO whose value is a protected value.
C13_NoProtectedValueSelected ==
  (/\ Selected
   /\ selection.out.found
   /\ selection.by = "UtxoService.selectUtxos" => ~includeProtected) =>
    \A i \in DOMAIN selection.out.selected :
      ~isProtectedValue(selection.out.selected[i].value)

\* The single confirmed UTXO of 50,000 sats, target 40,000 sats, 2 sat/vbyte.
C14_Case ==
  /\ utxos = <<[value |-> 50000, confirmed |-> TRUE]>>
  /\ targetAmount = 40000
  /\ feeRate = 2

\* C14 as stated: the selection for that case returns the UTXO with fee 298
\* sats and change 9,702 sats.
C14_Fee298Change9702 ==
  (Selected /\ C14_Case) =>
    /\ selection.out.found
    /\ selection.out.selected = utxos
    /\ selection.out.fee = 298
    /\ selection.out.change = 9702

\* C14: for a single confirmed UTXO of 50,000 sats, target 40,000 sats and
\* fee rate 2 sat/vbyte, selection returns exactly that UTXO with fee
\* ceil((10.5 + 57.5 + 2 * 43) * 2) = 308 sats and change 9,692 sats.
C14_Fee308Change9692 ==
  (Selected /\ C14_Case) =>
    /\ selection.out.found
    /\ selection.out.selected = utxos
    /\ selection.out.fee = 308
    /\ selection.out.change = 9692

C14_Witness == Selected /\ C14_Case /\ selection.out.found


\* ---------------------------------------------------------------------------
\* Properties of key derivation
\* ---------------------------------------------------------------------------
Range(f) == {f[i] : i \in DOMAIN f}

\* The key materials with an output script that the entry point returned.
KeyMaterials ==
  IF keyResult.out.status # "ok" THEN {}
  ELSE IF keyResult.by \in {"generateTaprootKeysForIndex",
                            "generateTaprootKeysForChainAndIndex"}
    THEN {keyResult.out.value}
  ELSE IF keyResult.by = "createWallet"
    THEN Range(keyResult.out.value.addresses)
           \cup Range(keyResult.out.value.extendedAddresses.recipient)
           \cup Range(keyResult.out.value.extendedAddresses.change)
  ELSE {}

\* C15: in every derived key material the output script encodes the tweaked
\* output key: the x-only key inside the script is the x-only public key of
\* tweakedPrivateKey, and the script is the script of the stored address.
C15_ScriptEncodesTweakedOutputKey ==
  \A km \in KeyMaterials :
    /\ km.script[3] = toXOnly(PublicKey(km.tweakedPrivateKey))
    /\ km.script = ScriptOfAddress(km.address)

\* C19: every key-derivation entry point fails with an invalid-mnemonic error
\* and produces no key material when the mnemonic fails BIP39 checksum
\* validation.
C19_BadChecksumRejectedEverywhere ==
  (/\ keyResult.by # "none"
   /\ keyArgs.mnemonic # NoMnemonic
   /\ ~keyArgs.mnemonic.checksum) =>
    /\ keyResult.out.status = "error"
    /\ keyResult.out.error \in {"Invalid mnemonic", "Invalid mnemonic phrase"}


\* ---------------------------------------------------------------------------
\* Properties of the fee operations
\* ---------------------------------------------------------------------------
\* C16: getFeeRates never fails: a call whose fetch threw or answered with a
\* non-OK response resolves with the fixed fallback rates, and
\* calculateTaprootFee then resolves with the fee at the fallback hour rate.
C16_FeeRatesFallBack ==
  \A c \in Callers :
    calls[c].pc = "done" =>
      /\ calls[c].status = "ok"
      /\ calls[c].response.kind \in {"throws", "notOk"} =>
           /\ calls[c].rates = FallbackRates
           /\ calls[c].op = "calculateTaprootFee" =>
                calls[c].fee = estimateTaprootTxSize(calls[c].numInputs, 2) * 1

C16_Witness ==
  \E c \in Callers :
    /\ calls[c].pc = "done"
    /\ calls[c].op = "calculateTaprootFee"
    /\ calls[c].response.kind = "notOk"
    /\ calls[c].fee = 212

\* C17: under any interleaving of getFeeRates calls, a call resolves with the
\* cached rates without fetching only when the cache is set and fewer than
\* FEE_CACHE_TTL ms have passed since feeRatesCacheTime; the cache and its
\* timestamp change only together, in the step in which a call stores the
\* rates of a successfully fetched and parsed body at the current time; the
\* fallback rates are never stored.
C17_CacheOnlyFreshAndFetched ==
  /\ [](/\ cachedFeeRates = NoRates => feeRatesCacheTime = 0
        /\ cachedFeeRates # FallbackRates)
  /\ [][/\ \A c \in Callers :
            (calls[c].pc = "idle" /\ calls'[c].source = "cache") =>
              /\ cachedFeeRates # NoRates
              /\ calls'[c].rates = cachedFeeRates
              /\ now - feeRatesCacheTime >= 0
              /\ now - feeRatesCacheTime < FEE_CACHE_TTL
        /\ <<cachedFeeRates, feeRatesCacheTime>>' # <<cachedFeeRates, feeRatesCacheTime>> =>
            \E c \in Callers :
              /\ calls[c].pc = "parsing"
              /\ calls[c].response.kind = "ok"
              /\ calls[c].response.json = "valid"
              /\ cachedFeeRates' = RatesOf(calls[c].response.body)
              /\ feeRatesCacheTime' = now
              /\ calls'[c].source = "fetch"]_vars

\* A call answered from the cache half a lifetime after it was stored, while
\* another call that began before the store is still waiting for its fetch.
C17_Witness ==
  \E c, d \in Callers :
    /\ calls[c].pc = "done"
    /\ calls[c].source = "cache"
    /\ calls[d].pc \in {"fetching", "parsing"}
    /\ now - feeRatesCacheTime = TickMs


\* ---------------------------------------------------------------------------
\* Properties of the wallet store
\* ---------------------------------------------------------------------------
\* C18: the mnemonic lives only in memory: it is never written to persistent
\* storage, and in the store a page reload has just rehydrated the mnemonic
\* is null.
C18_MnemonicNeverPersisted ==
  /\ localStorage.present => localStorage.state.mnemonic = NoMnemonic
  /\ walletStore.action = "@@HYDRATE" => walletStore.mnemonic = NoMnemonic


\* ---------------------------------------------------------------------------
\* Signing
\* ---------------------------------------------------------------------------
SignedCommitReturned ==
  /\ signOut.by \in {"signCommitTx", "signProverTransactions"}
  /\ signOut.ok

\* C21: the transaction signCommitTx produces has exactly one input, the
\* outpoint of input 0 of the unsigned commit transaction, and its outputs
\* are those of the unsigned commit transaction: same number, order, script
\* and amount.
C21_SignedCommitOneInputSameOutputs ==
  SignedCommitReturned =>
    /\ Len(signOut.signedCommitTx.ins) = 1
    /\ Outpoint(signOut.signedCommitTx.ins[1].txid,
                signOut.signedCommitTx.ins[1].index)
         = Outpoint(signArgs.commitTx.ins[1].txid, signArgs.commitTx.ins[1].index)
    /\ signOut.signedCommitTx.outs = signArgs.commitTx.outs

\* A commit transaction with two inputs and two outputs, the change output
\* first, has been signed.
C21_Witness ==
  /\ signOut.by = "signCommitTx"
  /\ signOut.ok
  /\ Len(signArgs.commitTx.ins) = 2
  /\ Len(signOut.signedCommitTx.outs) = 2
  /\ signOut.signedCommitTx.outs[1].script = "p2tr-user"
  /\ signOut.signedCommitTx.outs[2].script = "p2tr-prover"

\* C23: signProverTransactions returns the spell transaction exactly as it
\* received it, witnesses included, returns as spellTxid the id of that
\* transaction, and signs the commit transaction only.
C23_SpellPassedThroughUnchanged ==
  (signOut.by = "signProverTransactions" /\ signOut.ok) =>
    /\ signOut.signedSpellTx = signArgs.spellTx
    /\ signOut.spellTxid = WitnessFreeId(signArgs.spellTx)
    /\ \A i \in DOMAIN signOut.signedCommitTx.ins :
         signOut.signedCommitTx.ins[i].witness = "user"
    /\ \A i \in DOMAIN signOut.signedSpellTx.ins :
         signOut.signedSpellTx.ins[i].witness = signArgs.spellTx.ins[i].witness

\* A finalized spell transaction whose input is witnessed by the prover has
\* come back from signProverTransactions next to a commit transaction that
\* was handed over unsigned.
C23_Witness ==
  /\ signOut.by = "signProverTransactions"
  /\ signOut.ok
  /\ signArgs.commitTx.ins[1].witness = "none"
  /\ signOut.signedCommitTx.ins[1].witness = "user"
  /\ signOut.signedSpellTx.ins[Len(signOut.signedSpellTx.ins)].witness = "prover"
  /\ signOut.spellTxid = WitnessFreeId(signArgs.spellTx)

\* The outpoint the one input of the unsigned commit transaction spends.
CommitFundingId ==
  Outpoint(signArgs.commitTx.ins[1].txid, signArgs.commitTx.ins[1].index)

\* classifyProverTxs takes the signed commit for the commit and the spell
\* handed to the signer for the spell, in either array order.
SignedPairClassifies ==
  \A pair \in {<<signOut.signedCommitTx, signArgs.spellTx>>,
                <<signArgs.spellTx, signOut.signedCommitTx>>} :
    LET c == classifyProverTxs(pair, CommitFundingId) IN
      /\ c.ok
      /\ c.commitTx = signOut.signedCommitTx
      /\ c.spellTx = signArgs.spellTx

\* The statement of C29 for every unsigned commit transaction: the id of the
\* signed transaction is the id of the unsigned one.
C29_EveryCommitKeepsItsTxid ==
  SignedCommitReturned => signOut.commitTxid = WitnessFreeId(signArgs.commitTx)

\* C29: for every unsigned commit transaction that has exactly one input,
\* version 2 and lock time 0, the id of the signed transaction returned by
\* signCommitTx is the id of the unsigned one, so the spell transaction that
\* references the unsigned commit's id spends the signed commit and, when
\* every input of the spell carries a witness, the pair passes
\* classification against the outpoint the commit spends.
C29_SingleInputCommitKeepsItsTxid ==
  (/\ SignedCommitReturned
   /\ Len(signArgs.commitTx.ins) = 1
   /\ signArgs.commitTx.version = 2
   /\ signArgs.commitTx.lockTime = 0) =>
    /\ signOut.commitTxid = WitnessFreeId(signArgs.commitTx)
    /\ TxId(signOut.signedCommitTx) = [ok |-> TRUE, id |-> signOut.commitTxid]
    /\ \E i \in DOMAIN signArgs.spellTx.ins :
         signArgs.spellTx.ins[i].txid = signOut.commitTxid
    /\ IsFinal(signArgs.spellTx) => SignedPairClassifies

\* A single-input commit with a non-default input sequence has been signed
\* and kept its id, and the finalized two-input spell built on the unsigned
\* commit is classified as the spell of the signed one.
C29_Witness ==
  /\ signOut.by = "signProverTransactions"
  /\ signOut.ok
  /\ Len(signArgs.commitTx.ins) = 1
  /\ signArgs.commitTx.version = 2
  /\ signArgs.commitTx.lockTime = 0
  /\ signArgs.commitTx.ins[1].sequence = "fffffffd"
  /\ signOut.commitTxid = WitnessFreeId(signArgs.commitTx)
  /\ Len(signArgs.spellTx.ins) = 2
  /\ IsFinal(signArgs.spellTx)
  /\ SignedPairClassifies


\* ---------------------------------------------------------------------------
\* UTXO scanning
\* ---------------------------------------------------------------------------
RECURSIVE CountOf(_, _)
CountOf(list, x) ==
  IF list = <<>> THEN 0
  ELSE (IF Head(list) = x THEN 1 ELSE 0) + CountOf(Tail(list), x)

RECURSIVE CountType(_, _)
CountType(list, type) ==
  IF list = <<>> THEN 0
  ELSE (IF Head(list).type = type THEN 1 ELSE 0) + CountType(Tail(list), type)

\* C22: in scanAllAddresses the delay is executed between any two
\* consecutive UTXO fetches, also when the earlier of the two failed: no
\* fetch is followed directly by another fetch.
C22_DelayBetweenConsecutiveFetches ==
  scan.by = "scanAllAddresses" =>
    \A i \in 1..(Len(scan.log) - 1) :
      scan.log[i] = "fetch" => scan.log[i + 1] = "delay"

\* C26: scanAllAddresses attempts at most maxAddresses addresses, recipient
\* addresses first and change addresses only with the budget the recipient
\* addresses leave, and every attempted address is counted once: a failed
\* fetch adds one error and the scan goes on, a successful one increments
\* scannedAddresses, so scannedAddresses + errors.length is the number of
\* addresses attempted.
C26_BudgetAndAccounting ==
  scan.by = "scanAllAddresses" =>
    /\ Len(scan.queue) <= scanCfg.maxAddresses
    /\ \A i, j \in DOMAIN scan.queue :
         (i < j /\ scan.queue[i].type = "change") => scan.queue[j].type = "change"
    /\ \A i, j \in DOMAIN scan.queue : scan.queue[i] = scan.queue[j] => i = j
    /\ CountType(scan.queue, "change") > 0 =>
         CountType(scan.queue, "recipient") = Len(scanCfg.recipient)
    /\ scan.result.scannedAddresses + Len(scan.result.errors)
         = CountOf(scan.log, "fetch")
    /\ \A i \in DOMAIN scan.result.errors :
         /\ \E k \in DOMAIN scan.queue : scan.queue[k] = scan.result.errors[i].address
         /\ \A j \in DOMAIN scan.result.errors :
              scan.result.errors[i].address = scan.result.errors[j].address => i = j
    /\ scan.pc = "returned" => CountOf(scan.log, "fetch") = Len(scan.queue)

\* A scan with budget for one change address has returned after the fetch
\* for its first address failed and later ones succeeded.
C26_Witness ==
  /\ scan.by = "scanAllAddresses"
  /\ scan.pc = "returned"
  /\ Len(scanCfg.recipient) = 2
  /\ Len(scan.queue) = 3
  /\ Len(scan.result.errors) = 1
  /\ scan.result.errors[1].address = scan.queue[1]
  /\ scan.result.scannedAddresses = 2

ScanReturned ==
  /\ scan.by \in {"scanAddress", "scanAddressWithKeys", "scanAllAddresses"}
  /\ scan.pc = "returned"

Outputs(list) == {<<list[i].txid, list[i].vout, list[i].value>> : i \in DOMAIN list}

\* C28: with includeProtected = false every UTXO that scanAddress,
\* scanAddressWithKeys and scanAllAddresses return has a value of at least
\* minValue and outside the protected set; with includeProtected = true the
\* minimum value is the only filter: every fetched UTXO of at least minValue
\* is returned.
C28_ScanFilters ==
  ScanReturned =>
    /\ Outputs(scan.result.utxos) \subseteq Outputs(scan.fetched)
    /\ \A i \in DOMAIN scan.result.utxos :
         /\ scan.result.utxos[i].value >= scanCfg.minValue
         /\ ~scanCfg.includeProtected =>
              scan.result.utxos[i].value \notin {330, 333, 546, 777, 1000, 10000}
    /\ scanCfg.includeProtected =>
         \A i \in DOMAIN scan.fetched :
           scan.fetched[i].value >= scanCfg.minValue =>
             Outputs(<<scan.fetched[i]>>) \subseteq Outputs(scan.result.utxos)

\* A scan without protected values has fetched a protected value above the
\* minimum together with an ordinary one and returned the ordinary one.
C28_Witness ==
  /\ ScanReturned
  /\ ~scanCfg.includeProtected
  /\ scanCfg.minValue = 546
  /\ \E i \in DOMAIN scan.fetched : scan.fetched[i].value = 546
  /\ \E i \in DOMAIN scan.result.utxos : scan.result.utxos[i].value = 20000


\* ---------------------------------------------------------------------------
\* Cast route
\* ---------------------------------------------------------------------------
\* C27: the cast route broadcasts transactions only if they are signed: when
\* broadcast is requested and the client supplied neither signedCommitTx nor
\* signedSpellTx, nothing is sent, and the unsigned pair is returned with
\* needsSignature = true and broadcast = false; and no transaction taken
\* unsigned from the prover's response is ever sent to the network.
C27_OnlySignedTransactionsBroadcast ==
  /\ (/\ cast.pc = "responded"
      /\ cast.response.status = 200
      /\ castReq.broadcast
      /\ castReq.signedCommitTx = ""
      /\ castReq.signedSpellTx = "") =>
       /\ cast.sent = <<>>
       /\ cast.response.needsSignature
       /\ ~cast.response.broadcast
       /\ cast.response.commit_tx = TxAt(cast.txs, 1)
       /\ cast.response.spell_tx = OrElse(TxAt(cast.txs, 2), TxAt(cast.txs, 1))
  /\ \A i \in DOMAIN cast.sent :
       cast.sent[i] \notin {ProverCommitHex, ProverSpellHex}


\* ---------------------------------------------------------------------------
\* Market operations
\* ---------------------------------------------------------------------------
\* The prover pair is well formed for the selected funding UTXO: the commit
\* spends it with its only input and the spell spends output 0 of the commit.
WellFormedPair ==
  /\ Len(proverTxs[1].ins) = 1
  /\ Outpoint(proverTxs[1].ins[1].txid, proverTxs[1].ins[1].index)
       = FundingUtxoId(fundingUtxo)
  /\ \E i \in DOMAIN proverTxs[2].ins :
       Outpoint(proverTxs[2].ins[i].txid, proverTxs[2].ins[i].index)
         = Outpoint(WitnessFreeId(proverTxs[1]), 0)

\* Some call to the network has failed.
NetworkCallFailed ==
  \/ result.error.message \in {"Failed to fetch tx", "Failed to fetch funding transaction"}
  \/ \E i \in DOMAIN netLog : netLog[i].outcome = "failed"

\* C24: for a well-formed prover pair and with every network call
\* succeeding, signAndBroadcast as called by createMarket, mintShares,
\* redeemShares or trade reaches Broadcast and returns the two ids; it does
\* not end in Failed.
C24_WellFormedPairNeverFails ==
  (/\ running \in Calls
   /\ flow[running].op \in FlowOps
   /\ flow[running].stage \in {"signing", "ended"}
   /\ caller = "signAndBroadcast"
   /\ WellFormedPair
   /\ ~NetworkCallFailed) => pc # "failed"

\* C30: in every create, mint, redeem and trade operation the funding UTXO
\* that broadcastTxPackage classifies the pair against is the one the
\* operation selected and named to the prover, never a missing or another
\* one.
C30_ClassifiedAgainstSelectedFunding ==
  (/\ running \in Calls
   /\ flow[running].stage = "signing"
   /\ caller = "signAndBroadcast"
   /\ tx1Hex # NoTx) =>
    /\ fundingArg.defined
    /\ fundingArg = flow[running].fundingUtxo

Stores(a) == <<a.markets, a.transactions, a.positions>>

\* A step of an operation changes the three only when it is the step after
\* signAndBroadcast has returned the ids to the running call.
C25_StoresChange ==
  (Stores(app') # Stores(app) /\ storeCalls' = storeCalls) =>
    /\ running \in Calls
    /\ flow[running].stage = "signing"
    /\ flow'[running].stage = "ended"
    /\ caller = "signAndBroadcast"
    /\ result.status = "ok"

\* Call i ends in this step, and not by completing after signAndBroadcast
\* has returned the ids.
EndsInFailure(i) ==
  /\ flow[i].stage # "ended"
  /\ flow'[i].stage = "ended"
  /\ ~(flow[i].stage = "signing" /\ result.status = "ok")

\* The step in which a call ends after a failure: after a failure between
\* the UTXO fetch and the broadcast the three are as before, the error is
\* recorded and thrown on; after any failure inside the try block the flags
\* are false.
C25_FailureEnds ==
  \A i \in Calls :
    EndsInFailure(i) =>
      /\ flow[i].stage \in {"fetchingUtxos", "fetchingPrevTxs", "fetchingConfig",
                            "proving", "signing"} =>
           /\ Stores(app') = Stores(app)
           /\ app'.error # ""
           /\ flow[i].stage = "signing" => app'.error = MessageOf(result.error)
           /\ flow'[i].thrown
      /\ ~(/\ flow[i].stage = "idle"
           /\ walletStore.wallet = NoWallet \/ walletStore.mnemonic = NoMnemonic) =>
           /\ ~app'.isLoading
           /\ ~app'.isProcessing

\* C25: createMarket, mintShares, redeemShares and trade modify the market
\* list, the transaction history and the positions only after
\* signAndBroadcast has returned successfully; when a step from the UTXO
\* fetch to the broadcast fails, none of the three changes, the error is
\* recorded and thrown on, and isLoading and the processing flag are false
\* when the operation ends.
C25_StoresOnlyAfterBroadcast == [][C25_StoresChange /\ C25_FailureEnds]_vars

\* mintShares has ended with the error of signAndBroadcast recorded and the
\* stores as they were, no call from outside having touched them.
C25_Witness ==
  /\ running \in Calls
  /\ flow[running].op = "mint"
  /\ flow[running].stage = "ended"
  /\ flow[running].thrown
  /\ caller = "signAndBroadcast"
  /\ pc = "failed"
  /\ app.error = MessageOf(result.error)
  /\ app.error # ""
  /\ storeCalls = 0
  /\ app.transactions = <<OldTransaction>>
  /\ app.positions = InitialPositions
  /\ app.markets = InitialMarkets
  /\ ~app.isLoading
  /\ ~app.isProcessing

====
